---- MODULE Spec2Model ----
(***************************************************************************)
(* A model of the 16-bit stack virtual machine: the bounds-checked linear  *)
(* memory (memory.rs), the register set (registers.rs, macros.rs), the     *)
(* instruction decoder and executor (opcodes.rs) and the machine with its  *)
(* push, pop and step (machine.rs).                                        *)
(*                                                                         *)
(* Rust's u16 arithmetic is modelled with its width.  `a + b` and `a - b`  *)
(* on u16 panic when the build checks overflow (the dev and test profiles) *)
(* and wrap modulo 2^16 when it does not (the release profile); the build  *)
(* is a choice made once, in Init (overflow_checks).  An index past the    *)
(* end of the register array panics in every build.  A panic ends the run: *)
(* the state at the panic is kept and no further action is taken.          *)
(***************************************************************************)
EXTENDS Integers, Sequences, FiniteSets, TLC

VARIABLES
    registers,        \* Machine.registers: [u16; 8]
    memory,           \* Machine.memory: LinearMemory {bytes, size}
    halt,             \* Machine.halt
    signal_handlers,  \* Machine.signal_handlers: code -> handler
    overflow_checks,  \* the build: TRUE = overflow panics, FALSE = it wraps
    last,             \* the last call made on the machine and its result
    pre,              \* registers, memory and halt as they were before it
    gstack,           \* history: the pushes not yet popped, innermost last
    nhost,            \* host writes made so far
    ncalls            \* calls of push, pop and step made so far

vars == <<registers, memory, halt, signal_handlers, overflow_checks,
          last, pre, gstack, nhost, ncalls>>

----------------------------------------------------------------------------
(* Widths and program constants *)

U16 == 65536
U8 == 256
MEMORY_SIZE == 8192
STACK_START == 4096
NUM_REGISTERS == 8

\* Register codes (registers.rs)
A == 0
B == 1
C == 2
M == 3
SP == 4
PC == 5
BP == 6
FLAGS == 7
R0 == 8
R1 == 9
R2 == 10
R3 == 11
R4 == 12

\* Opcodes (opcodes.rs, the enum's discriminants, read back by Op::value)
OP_NOP == 0
OP_PUSH == 1
OP_POPREGISTER == 2
OP_PUSHREGISTER == 3
OP_ADDREGISTER == 4
OP_SIGNAL == 9
OP_ADDSTACK == 15

----------------------------------------------------------------------------
(* u16 arithmetic *)

\* a + b on u16: a panic when the build checks overflow, else the wrapped sum
AddU16(a, b, checks) ==
    IF a + b >= U16
    THEN [panic |-> checks, val |-> (a + b) % U16]
    ELSE [panic |-> FALSE, val |-> a + b]

\* a - b on u16: a panic when the build checks overflow, else the wrapped
\* difference
SubU16(a, b, checks) ==
    IF a < b
    THEN [panic |-> checks, val |-> (a - b + U16) % U16]
    ELSE [panic |-> FALSE, val |-> a - b]

----------------------------------------------------------------------------
(* LinearMemory (memory.rs).  bytes holds the non-zero bytes only: the     *)
(* buffer is zero-filled at creation, and a byte that is absent is 0.      *)

NewMemory(n) == [size |-> n, bytes |-> [x \in {} |-> 0]]

Byte(mem, addr) == IF addr \in DOMAIN mem.bytes THEN mem.bytes[addr] ELSE 0

SetByte(mem, addr, v) ==
    [mem EXCEPT !.bytes =
        IF v = 0
        THEN [x \in DOMAIN mem.bytes \ {addr} |-> mem.bytes[x]]
        ELSE [x \in DOMAIN mem.bytes \cup {addr} |->
                 IF x = addr THEN v ELSE mem.bytes[x]]]

\* LinearMemory::read
read(mem, addr) ==
    IF addr < mem.size
    THEN [some |-> TRUE, val |-> Byte(mem, addr)]
    ELSE [some |-> FALSE, val |-> 0]

\* write with the bound off by one: `addr <= size`
write_bound_off_by_one(mem, addr, v) ==
    IF addr <= mem.size
    THEN [ok |-> TRUE, mem |-> SetByte(mem, addr, v)]
    ELSE [ok |-> FALSE, mem |-> mem]

\* LinearMemory::write
write(mem, addr, v) ==
    IF addr < mem.size
    THEN [ok |-> TRUE, mem |-> SetByte(mem, addr, v)]
    ELSE [ok |-> FALSE, mem |-> mem]

\* read2 combining the two bytes in big-endian order
read2_big_endian(mem, addr, checks) ==
    LET lo == read(mem, addr) IN
    IF ~lo.some THEN [kind |-> "none", val |-> 0]
    ELSE LET next == AddU16(addr, 1, checks) IN
         IF next.panic THEN [kind |-> "panic", val |-> 0]
         ELSE LET hi == read(mem, next.val) IN
              IF hi.some
              THEN [kind |-> "some", val |-> hi.val + lo.val * U8]
              ELSE [kind |-> "none", val |-> 0]

\* Addressable::read2: kind is "some", "none" or "panic" (addr + 1 overflows)
read2(mem, addr, checks) ==
    LET lo == read(mem, addr) IN
    IF ~lo.some THEN [kind |-> "none", val |-> 0]
    ELSE LET next == AddU16(addr, 1, checks) IN
         IF next.panic THEN [kind |-> "panic", val |-> 0]
         ELSE LET hi == read(mem, next.val) IN
              IF hi.some
              THEN [kind |-> "some", val |-> lo.val + hi.val * U8]
              ELSE [kind |-> "none", val |-> 0]

\* write2 storing the high byte at addr and the low byte at addr + 1
write2_big_endian(mem, addr, value, checks) ==
    LET w1 == write(mem, addr, (value \div U8) % U8) IN
    IF ~w1.ok THEN [kind |-> "false", mem |-> mem]
    ELSE LET next == AddU16(addr, 1, checks) IN
         IF next.panic THEN [kind |-> "panic", mem |-> w1.mem]
         ELSE LET w2 == write(w1.mem, next.val, value % U8) IN
              IF w2.ok
              THEN [kind |-> "true", mem |-> w2.mem]
              ELSE [kind |-> "false", mem |-> w1.mem]

\* write2 returning the result of the low byte's write alone
write2_low_byte_result(mem, addr, value, checks) ==
    LET w1 == write(mem, addr, value % U8) IN
    IF ~w1.ok THEN [kind |-> "false", mem |-> mem]
    ELSE LET next == AddU16(addr, 1, checks) IN
         IF next.panic THEN [kind |-> "panic", mem |-> w1.mem]
         ELSE [kind |-> "true",
               mem |-> write(w1.mem, next.val, (value \div U8) % U8).mem]

\* Addressable::write2: the low byte is written first and stays written when
\* the high byte's write fails; kind is "true", "false" or "panic"
write2(mem, addr, value, checks) ==
    LET lo == value % U8
        hi == (value \div U8) % U8
        w1 == write(mem, addr, lo)
    IN  IF ~w1.ok THEN [kind |-> "false", mem |-> mem]
        ELSE LET next == AddU16(addr, 1, checks) IN
             IF next.panic THEN [kind |-> "panic", mem |-> w1.mem]
             ELSE LET w2 == write(w1.mem, next.val, hi) IN
                  IF w2.ok
                  THEN [kind |-> "true", mem |-> w2.mem]
                  ELSE [kind |-> "false", mem |-> w1.mem]

\* Addressable::load_from_vec: the bytes are written one by one from addr and
\* the first write out of bounds ends the load with None; the bytes written
\* before it stay. kind is "some", "none" or "panic" (addr + i overflows)
RECURSIVE load_range(_, _, _, _, _, _)
\* The loop's iterations for the indices i..(j - 1) in order, the first half
\* of them before the second, stopping at the first that fails
load_range(mem, from, addr, i, j, checks) ==
    IF i >= j
    THEN [kind |-> "some", mem |-> mem]
    ELSE IF j = i + 1
    THEN LET a == AddU16(addr, i % U16, checks) IN
         IF a.panic
         THEN [kind |-> "panic", mem |-> mem]
         ELSE LET w == write(mem, a.val, from[i + 1]) IN
              IF ~w.ok
              THEN [kind |-> "none", mem |-> mem]
              ELSE [kind |-> "some", mem |-> w.mem]
    ELSE LET first == load_range(mem, from, addr, i, (i + j) \div 2, checks) IN
         IF first.kind # "some"
         THEN first
         ELSE load_range(first.mem, from, addr, (i + j) \div 2, j, checks)

\* The loop from index i to the end of from, and what load_from_vec returns
load_from(mem, from, addr, i, checks) ==
    LET l == load_range(mem, from, addr, i, Len(from), checks) IN
    [kind |-> l.kind, mem |-> l.mem,
     bytes |-> IF l.kind = "some" THEN Len(from) ELSE 0,
     instructions |-> IF l.kind = "some" THEN Len(from) \div 2 ELSE 0]

\* load_from_vec with its loop starting at the second byte
load_from_vec_from_second(mem, from, addr, checks) ==
    load_from(mem, from, addr, 1, checks)

\* Addressable::load_from_vec
load_from_vec(mem, from, addr, checks) == load_from(mem, from, addr, 0, checks)

\* The loop of copy from index i: read(from + i), then write(to + i, x),
\* false at the first of them that fails
RECURSIVE copy_from(_, _, _, _, _, _)
copy_from(mem, from, to, n, i, checks) ==
    IF i >= n
    THEN [kind |-> "true", mem |-> mem]
    ELSE LET src == AddU16(from, i % U16, checks) IN
         IF src.panic
         THEN [kind |-> "panic", mem |-> mem]
         ELSE LET x == read(mem, src.val) IN
              IF ~x.some
              THEN [kind |-> "false", mem |-> mem]
              ELSE LET dst == AddU16(to, i % U16, checks) IN
                   IF dst.panic
                   THEN [kind |-> "panic", mem |-> mem]
                   ELSE LET w == write(mem, dst.val, x.val) IN
                        IF ~w.ok
                        THEN [kind |-> "false", mem |-> mem]
                        ELSE copy_from(w.mem, from, to, n, i + 1, checks)

\* copy with source and destination exchanged
copy_arguments_exchanged(mem, from, to, n, checks) ==
    copy_from(mem, to, from, n, 0, checks)

\* Addressable::copy
copy(mem, from, to, n, checks) == copy_from(mem, from, to, n, 0, checks)

----------------------------------------------------------------------------
(* Registers and the instruction decoder *)

\* from_u8 falling back to register A for a code that names no register
from_u8_default_register(v) ==
    IF v \in A..R4
    THEN [some |-> TRUE, reg |-> v]
    ELSE [some |-> TRUE, reg |-> A]

\* Register::from_u8 (define_registers!): codes 0x00..0x0C name a register
from_u8(v) ==
    IF v \in A..R4
    THEN [some |-> TRUE, reg |-> v]
    ELSE [some |-> FALSE, reg |-> 0]

\* parse_instructions_arg taking the operand from the word's low byte
parse_instructions_arg_low_byte(ins) == ins % U8

\* parse_instructions_arg: the upper 8 bits
parse_instructions_arg(ins) == (ins \div U8) % U8

\* parse_instructions with AddStack at 0x03, the number machine.rs gives it,
\* ahead of the PushRegister arm
parse_instructions_addstack_at_3(ins) ==
    LET op == ins % U8
        arg == parse_instructions_arg(ins)
        r == from_u8(arg)
        r1 == from_u8((arg \div 16) % 16)
        r2 == from_u8(arg % 16)
    IN  CASE op = OP_NOP -> [ok |-> TRUE, op |-> [name |-> "Nop"]]
          [] op = OP_PUSH -> [ok |-> TRUE, op |-> [name |-> "Push", v |-> arg]]
          [] op = 3 -> [ok |-> TRUE, op |-> [name |-> "AddStack"]]
          [] op = OP_POPREGISTER /\ r.some ->
                [ok |-> TRUE, op |-> [name |-> "PopRegister", r |-> r.reg]]
          [] op = OP_POPREGISTER ->
                [ok |-> FALSE, err |-> <<"unknown register", arg>>]
          [] op = OP_ADDREGISTER /\ r1.some /\ r2.some ->
                [ok |-> TRUE, op |-> [name |-> "AddRegister",
                                      r1 |-> r1.reg, r2 |-> r2.reg]]
          [] op = OP_ADDREGISTER ->
                [ok |-> FALSE,
                 err |-> <<"unknown register",
                           IF r1.some THEN arg % 16 ELSE (arg \div 16) % 16>>]
          [] op = OP_SIGNAL -> [ok |-> TRUE, op |-> [name |-> "Signal", s |-> arg]]
          [] OTHER -> [ok |-> FALSE, err |-> <<"unknown op", op>>]

\* parse_instructions: the lower 8 bits select the operation
parse_instructions(ins) ==
    LET op == ins % U8
        arg == parse_instructions_arg(ins)
    IN  CASE op = OP_NOP -> [ok |-> TRUE, op |-> [name |-> "Nop"]]
          [] op = OP_PUSH -> [ok |-> TRUE, op |-> [name |-> "Push", v |-> arg]]
          [] op = OP_POPREGISTER ->
                LET r == from_u8(arg) IN
                IF r.some
                THEN [ok |-> TRUE, op |-> [name |-> "PopRegister", r |-> r.reg]]
                ELSE [ok |-> FALSE, err |-> <<"unknown register", arg>>]
          [] op = OP_PUSHREGISTER ->
                LET r == from_u8(arg) IN
                IF r.some
                THEN [ok |-> TRUE, op |-> [name |-> "PushRegister", r |-> r.reg]]
                ELSE [ok |-> FALSE, err |-> <<"unknown register", arg>>]
          [] op = OP_ADDREGISTER ->
                LET reg1 == (arg \div 16) % 16
                    reg2 == arg % 16
                    r1 == from_u8(reg1)
                    r2 == from_u8(reg2)
                IN  IF ~r1.some
                    THEN [ok |-> FALSE, err |-> <<"unknown register", reg1>>]
                    ELSE IF ~r2.some
                    THEN [ok |-> FALSE, err |-> <<"unknown register", reg2>>]
                    ELSE [ok |-> TRUE,
                          op |-> [name |-> "AddRegister",
                                  r1 |-> r1.reg, r2 |-> r2.reg]]
          [] op = OP_ADDSTACK -> [ok |-> TRUE, op |-> [name |-> "AddStack"]]
          [] op = OP_SIGNAL -> [ok |-> TRUE, op |-> [name |-> "Signal", s |-> arg]]
          [] OTHER -> [ok |-> FALSE, err |-> <<"unknown op", op>>]

\* The 16-bit word of an (opcode, argument) byte pair as memory holds it:
\* opcode at addr (low byte), argument at addr + 1 (high byte)
Word(opcode, arg) == opcode + arg * U8

----------------------------------------------------------------------------
(* The machine (machine.rs).  An operation on a machine value vm returns   *)
(* res ("ok", "err" or "panic"), the machine as the operation leaves it,   *)
(* the value or the error it returns, and how many pushes and pops         *)
(* succeeded inside it.                                                    *)

\* Machine::new without `registers[Register::SP as usize] = 0x1000`
NewMachine_without_stack_start ==
    [registers |-> [r \in 0..(NUM_REGISTERS - 1) |-> 0],
     memory |-> NewMemory(MEMORY_SIZE),
     halt |-> FALSE]

\* Machine::new
NewMachine ==
    [registers |-> [r \in 0..(NUM_REGISTERS - 1) |->
                       IF r = SP THEN STACK_START ELSE 0],
     memory |-> NewMemory(MEMORY_SIZE),
     halt |-> FALSE]

Result(res, vm, val, err, pushes, pops) ==
    [res |-> res, vm |-> vm, val |-> val, err |-> err,
     pushes |-> pushes, pops |-> pops]

\* pop without the `SP += 2` that undoes the decrement on a read fault
pop_without_restore(vm, checks) ==
    LET d == SubU16(vm.registers[SP], 2, checks) IN
    IF d.panic THEN Result("panic", vm, 0, <<>>, 0, 0)
    ELSE
      LET sp == d.val
          vm1 == [vm EXCEPT !.registers[SP] = sp]
          v == read2(vm1.memory, sp, checks)
      IN  CASE v.kind = "some" -> Result("ok", vm1, v.val, <<>>, 0, 1)
            [] v.kind = "panic" -> Result("panic", vm1, 0, <<>>, 0, 0)
            [] OTHER -> Result("err", vm1, 0, <<"memory read fault", sp>>, 0, 0)

\* Machine::pop: SP -= 2, read the word at the new SP, SP += 2 on a fault
pop(vm, checks) ==
    LET d == SubU16(vm.registers[SP], 2, checks) IN
    IF d.panic THEN Result("panic", vm, 0, <<>>, 0, 0)
    ELSE
      LET sp == d.val
          vm1 == [vm EXCEPT !.registers[SP] = sp]
          v == read2(vm1.memory, sp, checks)
      IN  CASE v.kind = "some" -> Result("ok", vm1, v.val, <<>>, 0, 1)
            [] v.kind = "panic" -> Result("panic", vm1, 0, <<>>, 0, 0)
            [] OTHER ->
                 LET u == AddU16(sp, 2, checks) IN
                 IF u.panic THEN Result("panic", vm1, 0, <<>>, 0, 0)
                 ELSE Result("err", [vm1 EXCEPT !.registers[SP] = u.val], 0,
                             <<"memory read fault", sp>>, 0, 0)

\* push with its two statements swapped: SP += 2, then write at the new SP
push_increment_first(vm, v, checks) ==
    LET u == AddU16(vm.registers[SP], 2, checks) IN
    IF u.panic THEN Result("panic", vm, 0, <<>>, 0, 0)
    ELSE
      LET w == write2(vm.memory, u.val, v, checks)
          vm1 == [vm EXCEPT !.memory = w.mem, !.registers[SP] = u.val]
      IN  CASE w.kind = "false" ->
                   Result("err", [vm1 EXCEPT !.registers[SP] = vm.registers[SP]],
                          0, <<"memory write fault", u.val>>, 0, 0)
            [] w.kind = "panic" -> Result("panic", vm1, 0, <<>>, 0, 0)
            [] OTHER -> Result("ok", vm1, 0, <<>>, 1, 0)

\* push for a stack that grows towards lower addresses: SP -= 2, then write
push_growing_down(vm, v, checks) ==
    LET d == SubU16(vm.registers[SP], 2, checks) IN
    IF d.panic THEN Result("panic", vm, 0, <<>>, 0, 0)
    ELSE
      LET w == write2(vm.memory, d.val, v, checks)
          vm1 == [vm EXCEPT !.memory = w.mem]
      IN  CASE w.kind = "false" ->
                   Result("err", vm1, 0, <<"memory write fault", d.val>>, 0, 0)
            [] w.kind = "panic" -> Result("panic", vm1, 0, <<>>, 0, 0)
            [] OTHER -> Result("ok", [vm1 EXCEPT !.registers[SP] = d.val], 0,
                               <<>>, 1, 0)

\* push that does not look at what write2 returned
push_result_ignored(vm, v, checks) ==
    LET sp == vm.registers[SP]
        w == write2(vm.memory, sp, v, checks)
        vm1 == [vm EXCEPT !.memory = w.mem]
        u == AddU16(sp, 2, checks)
    IN  IF w.kind = "panic" \/ u.panic
        THEN Result("panic", vm1, 0, <<>>, 0, 0)
        ELSE Result("ok", [vm1 EXCEPT !.registers[SP] = u.val], 0, <<>>, 1, 0)

\* Machine::push: write the word at SP, then SP += 2
push(vm, v, checks) ==
    LET sp == vm.registers[SP]
        w == write2(vm.memory, sp, v, checks)
        vm1 == [vm EXCEPT !.memory = w.mem]
    IN  CASE w.kind = "false" ->
                 Result("err", vm1, 0, <<"memory write fault", sp>>, 0, 0)
          [] w.kind = "panic" -> Result("panic", vm1, 0, <<>>, 0, 0)
          [] OTHER ->
                 LET u == AddU16(sp, 2, checks) IN
                 IF u.panic THEN Result("panic", vm1, 0, <<>>, 0, 0)
                 ELSE Result("ok", [vm1 EXCEPT !.registers[SP] = u.val], 0,
                             <<>>, 1, 0)

\* The machine as the handlers "store" and "store_fail" leave it
Stored(vm) ==
    [vm EXCEPT !.registers[A] = 4660,
               !.memory = write2(vm.memory, 0, 4660, TRUE).mem,
               !.halt = TRUE]

\* A signal handler's body, a host function `fn(&mut Machine) ->
\* Result<(), String>`.  "halt" is the drivers' signal_halt; "fail" returns
\* an error; "store" writes a register, a memory word and the halt flag;
\* "store_fail" does the same and returns an error
RunHandler(h, vm) ==
    CASE h = "halt" -> Result("ok", [vm EXCEPT !.halt = TRUE], 0, <<>>, 0, 0)
      [] h = "fail" -> Result("err", vm, 0, <<"handler failed">>, 0, 0)
      [] h = "store" -> Result("ok", Stored(vm), 0, <<>>, 0, 0)
      [] h = "store_fail" ->
             Result("err", Stored(vm), 0, <<"handler failed">>, 0, 0)

\* registers[r as usize]: an index past the array's end panics
InRegisterFile(r) == r < NUM_REGISTERS

\* The PopRegister arm reading the top word without taking it off: SP is
\* put back after the pop
ExecPopRegister_peek(vm, r, checks) ==
    LET p == pop(vm, checks) IN
    IF p.res # "ok" THEN p
    ELSE IF ~InRegisterFile(r) THEN Result("panic", p.vm, 0, <<>>, 0, 1)
    ELSE Result("ok", [p.vm EXCEPT !.registers[r] = p.val,
                                   !.registers[SP] = vm.registers[SP]],
                0, <<>>, 0, 1)

\* execute_instruction, arm Op::PopRegister
ExecPopRegister(vm, r, checks) ==
    LET p == pop(vm, checks) IN
    IF p.res # "ok" THEN p
    ELSE IF ~InRegisterFile(r) THEN Result("panic", p.vm, 0, <<>>, 0, 1)
    ELSE Result("ok", [p.vm EXCEPT !.registers[r] = p.val], 0, <<>>, 0, 1)

\* The PushRegister arm pushing the register's code: `machine.push(r as u16)`
ExecPushRegister_pushes_code(vm, r, checks) ==
    IF ~InRegisterFile(r) THEN Result("panic", vm, 0, <<>>, 0, 0)
    ELSE push(vm, r, checks)

\* execute_instruction, arm Op::PushRegister
ExecPushRegister(vm, r, checks) ==
    IF ~InRegisterFile(r) THEN Result("panic", vm, 0, <<>>, 0, 0)
    ELSE push(vm, vm.registers[r], checks)

\* execute_instruction, arm Op::AddStack
ExecAddStack(vm, checks) ==
    LET a == pop(vm, checks) IN
    IF a.res # "ok" THEN a
    ELSE
      LET b == pop(a.vm, checks) IN
      IF b.res # "ok" THEN [b EXCEPT !.pops = 1]
      ELSE
        LET sum == AddU16(a.val, b.val, checks) IN
        IF sum.panic THEN Result("panic", b.vm, 0, <<>>, 0, 2)
        ELSE [push(b.vm, sum.val, checks) EXCEPT !.pops = 2]

\* execute_instruction, arm Op::AddRegister
ExecAddRegister(vm, r1, r2, checks) ==
    IF ~InRegisterFile(r2) \/ ~InRegisterFile(r1)
    THEN Result("panic", vm, 0, <<>>, 0, 0)
    ELSE
      LET sum == AddU16(vm.registers[r1], vm.registers[r2], checks) IN
      IF sum.panic THEN Result("panic", vm, 0, <<>>, 0, 0)
      ELSE Result("ok", [vm EXCEPT !.registers[r1] = sum.val], 0, <<>>, 0, 0)

\* The Signal arm finding the handler but not calling it
ExecSignal_handler_not_called(vm, handlers, s) ==
    IF s \notin DOMAIN handlers
    THEN Result("err", vm, 0, <<"unknown signal", s>>, 0, 0)
    ELSE Result("ok", vm, 0, <<>>, 0, 0)

\* The Signal arm taking a signal without handler for a no-op
ExecSignal_unknown_ignored(vm, handlers, s) ==
    IF s \notin DOMAIN handlers
    THEN Result("ok", vm, 0, <<>>, 0, 0)
    ELSE RunHandler(handlers[s], vm)

\* The Signal arm dropping what the handler returned:
\* `let _ = sig_fn(self); Ok(())`
ExecSignal_result_dropped(vm, handlers, s) ==
    IF s \notin DOMAIN handlers
    THEN Result("err", vm, 0, <<"unknown signal", s>>, 0, 0)
    ELSE [RunHandler(handlers[s], vm) EXCEPT !.res = "ok", !.err = <<>>]

\* execute_instruction, arm Op::Signal
ExecSignal(vm, handlers, s) ==
    IF s \notin DOMAIN handlers
    THEN Result("err", vm, 0, <<"unknown signal", s>>, 0, 0)
    ELSE RunHandler(handlers[s], vm)

\* execute_instruction with opcode 0 taken for a halt: the Nop arm sets
\* the halt flag
execute_instruction_nop_halts(vm, handlers, op, checks) ==
    CASE op.name = "Nop" -> Result("ok", [vm EXCEPT !.halt = TRUE], 0, <<>>, 0, 0)
      [] op.name = "Push" -> push(vm, op.v, checks)
      [] op.name = "PopRegister" -> ExecPopRegister(vm, op.r, checks)
      [] op.name = "PushRegister" -> ExecPushRegister(vm, op.r, checks)
      [] op.name = "AddStack" -> ExecAddStack(vm, checks)
      [] op.name = "AddRegister" -> ExecAddRegister(vm, op.r1, op.r2, checks)
      [] op.name = "Signal" -> ExecSignal(vm, handlers, op.s)

\* execute_instruction
execute_instruction(vm, handlers, op, checks) ==
    CASE op.name = "Nop" -> Result("ok", vm, 0, <<>>, 0, 0)
      [] op.name = "Push" -> push(vm, op.v, checks)
      [] op.name = "PopRegister" -> ExecPopRegister(vm, op.r, checks)
      [] op.name = "PushRegister" -> ExecPushRegister(vm, op.r, checks)
      [] op.name = "AddStack" -> ExecAddStack(vm, checks)
      [] op.name = "AddRegister" -> ExecAddRegister(vm, op.r1, op.r2, checks)
      [] op.name = "Signal" -> ExecSignal(vm, handlers, op.s)

NoOp == [name |-> "none"]

StepResult(r, fetched, op) ==
    [res |-> r.res, vm |-> r.vm, val |-> r.val, err |-> r.err,
     pushes |-> r.pushes, pops |-> r.pops, fetched |-> fetched, op |-> op]

\* step advancing PC after the decoding instead of before it: a word
\* that does not decode leaves PC where it was
step_advance_after_decode(vm, handlers, checks) ==
    LET pc == vm.registers[PC]
        argaddr == AddU16(pc, 1, checks)
    IN  IF argaddr.panic
        THEN StepResult(Result("panic", vm, 0, <<>>, 0, 0), FALSE, NoOp)
        ELSE
          LET ins == read2(vm.memory, pc, checks) IN
          IF ins.kind # "some"
          THEN StepResult(Result("err", vm, 0,
                                 <<"memory read fault at PC", pc>>, 0, 0),
                          FALSE, NoOp)
          ELSE
            LET d == parse_instructions(ins.val)
                next == AddU16(pc, 2, checks)
                vm1 == [vm EXCEPT !.registers[PC] = next.val]
            IN  IF ~d.ok
                THEN StepResult(Result("err", vm, 0, d.err, 0, 0), TRUE, NoOp)
                ELSE IF next.panic
                THEN StepResult(Result("panic", vm, 0, <<>>, 0, 0), TRUE, NoOp)
                ELSE StepResult(
                       execute_instruction(vm1, handlers, d.op, checks),
                       TRUE, d.op)

\* Machine::step: fetch the word at PC, PC += 2, decode, execute
step(vm, handlers, checks) ==
    LET pc == vm.registers[PC]
        argaddr == AddU16(pc, 1, checks)
    IN  \* the trace's `self.memory.read(pc + 1)` comes before the fetch
        IF argaddr.panic
        THEN StepResult(Result("panic", vm, 0, <<>>, 0, 0), FALSE, NoOp)
        ELSE
          LET ins == read2(vm.memory, pc, checks) IN
          IF ins.kind # "some"
          THEN StepResult(Result("err", vm, 0,
                                 <<"memory read fault at PC", pc>>, 0, 0),
                          FALSE, NoOp)
          ELSE
            LET next == AddU16(pc, 2, checks)
                vm1 == [vm EXCEPT !.registers[PC] = next.val]
            IN  IF next.panic
                THEN StepResult(Result("panic", vm, 0, <<>>, 0, 0), TRUE, NoOp)
                ELSE
                  LET d == parse_instructions(ins.val) IN
                  IF ~d.ok
                  THEN StepResult(Result("err", vm1, 0, d.err, 0, 0), TRUE, NoOp)
                  ELSE StepResult(
                         execute_instruction(vm1, handlers, d.op, checks),
                         TRUE, d.op)

----------------------------------------------------------------------------
(* Bounds of the model *)

MaxHostWrites == 2
MaxCalls == 1
MaxStackCalls == 6

(* The values the host and the programs use: the edges of u8 and u16, of   *)
(* the memory and of the stack region.                                     *)

SPValues == {0, 2, MEMORY_SIZE - 2, MEMORY_SIZE - 1, MEMORY_SIZE}
PCValues == {MEMORY_SIZE - 2, MEMORY_SIZE - 1, U16 - 1}
HostRegisterValues ==
    [r \in {A, B, SP, PC} |->
        CASE r = SP -> SPValues
          [] r = PC -> PCValues
          [] r = A -> {U16 - 1}
          [] r = B -> {1}]
StackSlots == {STACK_START - 4, STACK_START - 2}
StackWords == {1, U16 - 1}
SignalCodes == {9, 66}
Handlers == {"halt", "fail", "store", "store_fail"}
PushValues == {1, U16 - 1}

Instructions ==
    {Word(OP_NOP, 0), Word(OP_PUSH, 0), Word(OP_PUSH, U8 - 1),
     Word(OP_POPREGISTER, A), Word(OP_POPREGISTER, SP),
     Word(OP_POPREGISTER, PC), Word(OP_POPREGISTER, R0),
     Word(OP_POPREGISTER, R4 + 1),
     Word(OP_PUSHREGISTER, A), Word(OP_PUSHREGISTER, SP),
     Word(OP_PUSHREGISTER, PC),
     Word(OP_ADDSTACK, 0),
     Word(OP_ADDREGISTER, A * 16 + B), Word(OP_ADDREGISTER, A * 16 + A),
     Word(OP_ADDREGISTER, SP * 16 + A), Word(OP_ADDREGISTER, PC * 16 + B),
     Word(OP_SIGNAL, 9), Word(OP_SIGNAL, 42), Word(OP_SIGNAL, 66),
     Word(U8 - 1, 0)}

----------------------------------------------------------------------------
(* The state machine *)

Machine == [registers |-> registers, memory |-> memory, halt |-> halt]

Running == last.res # "panic"

\* The state in which the run starts on the machine vm
Started(vm) ==
    /\ registers = vm.registers
    /\ memory = vm.memory
    /\ halt = vm.halt
    /\ signal_handlers = [c \in {} |-> "halt"]
    /\ overflow_checks \in BOOLEAN
    /\ last = [call |-> "new", res |-> "ok", val |-> 0, err |-> <<>>,
               pushes |-> 0, pops |-> 0, fetched |-> FALSE, op |-> NoOp,
               gstack |-> <<>>]
    /\ pre = vm
    /\ gstack = <<>>
    /\ nhost = 0
    /\ ncalls = 0

Init == Started(NewMachine)

\* The host arranges the machine before the run, as a test's set-up does
Setup == last.call \in {"new", "host"} /\ nhost < MaxHostWrites

HostRecord ==
    [call |-> "host", res |-> "ok", val |-> 0, err |-> <<>>,
     pushes |-> 0, pops |-> 0, fetched |-> FALSE, op |-> NoOp,
     gstack |-> gstack]

\* The host sets a register before the run: `vm.registers[r as usize] = v`
HostSetRegister(r, v) ==
    /\ Setup
    /\ registers' = [registers EXCEPT ![r] = v]
    /\ last' = HostRecord
    /\ nhost' = nhost + 1
    /\ UNCHANGED <<pre, memory, halt, signal_handlers, overflow_checks, gstack,
                   ncalls>>

\* The host writes a word into memory before the run: `vm.memory.write2`
HostWrite2(addr, v) ==
    /\ Setup
    /\ LET w == write2(memory, addr, v, overflow_checks) IN
         /\ w.kind = "true"
         /\ memory' = w.mem
    /\ last' = HostRecord
    /\ nhost' = nhost + 1
    /\ UNCHANGED <<pre, registers, halt, signal_handlers, overflow_checks, gstack,
                   ncalls>>

\* Machine::define_handler: `self.signal_handlers.insert(index, f)`
DefineHandler(c, h) ==
    /\ Setup
    /\ signal_handlers' = [x \in DOMAIN signal_handlers \cup {c} |->
                               IF x = c THEN h ELSE signal_handlers[x]]
    /\ last' = HostRecord
    /\ nhost' = nhost + 1
    /\ UNCHANGED <<pre, registers, memory, halt, overflow_checks, gstack, ncalls>>

Commit(r, call) ==
    /\ registers' = r.vm.registers
    /\ memory' = r.vm.memory
    /\ halt' = r.vm.halt
    /\ last' = [call |-> call, res |-> r.res, val |-> r.val, err |-> r.err,
                pushes |-> r.pushes, pops |-> r.pops,
                fetched |-> r.fetched, op |-> r.op, gstack |-> gstack]
    /\ ncalls' = ncalls + 1
    /\ UNCHANGED <<signal_handlers, overflow_checks, nhost>>

\* The machine with the instruction word w at PC, as the host loads it:
\* `vm.memory.write(pc, opcode); vm.memory.write(pc + 1, arg)`
WithInstruction(vm, w) ==
    LET pc == vm.registers[PC] IN
    [vm EXCEPT !.memory = write(write(vm.memory, pc, w % U8).mem,
                                (pc + 1) % U16, w \div U8).mem]

\* A call of Machine::step on the word that memory holds at PC
Step ==
    /\ Running
    /\ Commit(step(Machine, signal_handlers, overflow_checks), "step")
    /\ pre' = Machine
    /\ UNCHANGED gstack

\* The host loads the instruction w at PC, then calls Machine::step
StepInstruction(w) ==
    /\ Running
    /\ registers[PC] + 1 < memory.size
    /\ LET vm == WithInstruction(Machine, w) IN
         /\ Commit(step(vm, signal_handlers, overflow_checks), "step")
         /\ pre' = vm
    /\ UNCHANGED gstack

\* A call of Machine::push
CallPush(v) ==
    /\ Running
    /\ LET r == push(Machine, v, overflow_checks) IN
         /\ Commit(StepResult(r, FALSE, [name |-> "push", v |-> v]), "push")
         /\ pre' = Machine
         /\ gstack' = IF r.res = "ok"
                      THEN Append(gstack, [v |-> v, sp |-> registers[SP]])
                      ELSE gstack

\* A call of Machine::pop
CallPop ==
    /\ Running
    /\ LET r == pop(Machine, overflow_checks) IN
         /\ Commit(StepResult(r, FALSE, [name |-> "pop"]), "pop")
         /\ pre' = Machine
         /\ gstack' = IF r.res = "ok" /\ gstack # <<>>
                      THEN SubSeq(gstack, 1, Len(gstack) - 1)
                      ELSE gstack

Next ==
    \/ \E r \in DOMAIN HostRegisterValues :
         \E v \in HostRegisterValues[r] : HostSetRegister(r, v)
    \/ \E addr \in StackSlots : \E v \in StackWords : HostWrite2(addr, v)
    \/ \E c \in SignalCodes, h \in Handlers : DefineHandler(c, h)
    \/ \E w \in Instructions : ncalls < MaxCalls /\ StepInstruction(w)
    \/ ncalls < MaxCalls /\ Step
    \/ \E v \in PushValues : ncalls < MaxCalls /\ CallPush(v)
    \/ ncalls < MaxCalls /\ CallPop

Spec == Init /\ [][Next]_vars

----------------------------------------------------------------------------
(* Machine::pop alone, from every value of SP *)

MaxPopCalls == 1

InitPop ==
    \E sp \in 0..(U16 - 1) :
        Started([NewMachine EXCEPT !.registers[SP] = sp])

NextPop == ncalls < MaxPopCalls /\ CallPop

SpecPop == InitPop /\ [][NextPop]_vars

----------------------------------------------------------------------------
(* Sequences of Machine::push and Machine::pop, from the start of the      *)
(* stack region and from just below the end of memory                      *)

StackBases == {STACK_START, MEMORY_SIZE - 4, MEMORY_SIZE - 3}
StackValues == {0, 1, 4660, U16 - 1}

InitStack ==
    \E sp \in StackBases :
        Started([NewMachine EXCEPT !.registers[SP] = sp])

NextStack ==
    \/ \E v \in StackValues : ncalls < MaxStackCalls /\ CallPush(v)
    \/ ncalls < MaxStackCalls /\ CallPop

SpecStack == InitStack /\ [][NextStack]_vars

----------------------------------------------------------------------------
(* The program Push(a), Push(b), AddStack, PopRegister(A), loaded at 0 and *)
(* run for its four instructions                                           *)

ADD_PROGRAM_STEPS == 4

AddProgram(a, b) ==
    <<OP_PUSH, a, OP_PUSH, b, OP_ADDSTACK, 0, OP_POPREGISTER, A>>

InitAdd ==
    \E a \in 0..(U8 - 1), b \in 0..(U8 - 1) :
        Started([NewMachine EXCEPT !.memory =
                    load_from_vec(NewMachine.memory, AddProgram(a, b), 0,
                                  TRUE).mem])

NextAdd == ncalls < ADD_PROGRAM_STEPS /\ Step

SpecAdd == InitAdd /\ [][NextAdd]_vars

----------------------------------------------------------------------------
(* The two Register enums and the instruction codec as functions.  The     *)
(* register set is 13 variants in registers.rs (define_registers!) and 8   *)
(* in machine.rs; a register value is its discriminant.                    *)

\* registers.rs: the variants with their explicit discriminants
RegisterVariants ==
    <<[name |-> "A", value |-> A], [name |-> "B", value |-> B],
      [name |-> "C", value |-> C], [name |-> "M", value |-> M],
      [name |-> "SP", value |-> SP], [name |-> "PC", value |-> PC],
      [name |-> "BP", value |-> BP], [name |-> "FLAGS", value |-> FLAGS],
      [name |-> "R0", value |-> R0], [name |-> "R1", value |-> R1],
      [name |-> "R2", value |-> R2], [name |-> "R3", value |-> R3],
      [name |-> "R4", value |-> R4]>>

\* machine.rs: enum Register, discriminants implicit from 0 in order
MachineRegisterNames == <<"A", "B", "C", "M", "SP", "PC", "BP", "FLAGS">>

MachineRegisterVariants ==
    [i \in 1..Len(MachineRegisterNames) |->
        [name |-> MachineRegisterNames[i], value |-> i - 1]]

\* The first of the variants of vs at the indices hits, as a match expression
\* takes its first matching arm; None when no arm matches
FirstMatch(vs, hits) ==
    IF hits = {} THEN [some |-> FALSE, reg |-> 0]
    ELSE [some |-> TRUE,
          reg |-> vs[CHOOSE i \in hits : \A j \in hits : i <= j].value]

\* from_u8 with the results of the SP and PC arms exchanged
Register_from_u8_arms_exchanged(v) ==
    CASE v = SP -> [some |-> TRUE, reg |-> PC]
      [] v = PC -> [some |-> TRUE, reg |-> SP]
      [] v \in 0..(Len(MachineRegisterNames) - 1) -> [some |-> TRUE, reg |-> v]
      [] OTHER -> [some |-> FALSE, reg |-> 0]

\* machine.rs Register::from_u8
Register_from_u8(v) ==
    FirstMatch(MachineRegisterVariants,
               {i \in 1..Len(MachineRegisterVariants) :
                    MachineRegisterVariants[i].value = v})

\* machine.rs Register::from_str: the exact names only
Register_from_str(str) ==
    LET r == FirstMatch(MachineRegisterVariants,
                        {i \in 1..Len(MachineRegisterVariants) :
                             MachineRegisterVariants[i].name = str})
    IN  IF r.some THEN [ok |-> TRUE, reg |-> r.reg]
        ELSE [ok |-> FALSE, err |-> <<"Invalid register name", str>>]

\* machine.rs: enum Op, #[repr(u8)], discriminants implicit from 0 in order
MachineOpNames ==
    <<"Nop", "Push", "PopRegister", "AddStack", "AddRegister", "Signal">>

\* machine.rs Op::value: the discriminant byte of the variant
Machine_Op_value(name) ==
    (CHOOSE i \in 1..Len(MachineOpNames) : MachineOpNames[i] = name) - 1

\* opcodes.rs: enum Op with its explicit discriminants
OpNames ==
    {"Nop", "Push", "PopRegister", "PushRegister", "AddStack", "AddRegister",
     "Signal"}

\* opcodes.rs Op::value
Op_value(name) ==
    CASE name = "Nop" -> OP_NOP
      [] name = "Push" -> OP_PUSH
      [] name = "PopRegister" -> OP_POPREGISTER
      [] name = "PushRegister" -> OP_PUSHREGISTER
      [] name = "AddStack" -> OP_ADDSTACK
      [] name = "AddRegister" -> OP_ADDREGISTER
      [] name = "Signal" -> OP_SIGNAL

\* machine.rs parse_instructions: arms for Nop, Push, PopRegister, AddStack
\* and Signal, none for AddRegister
Machine_parse_instructions(ins) ==
    LET op == ins % U8
        arg == (ins \div U8) % U8
    IN  CASE op = Machine_Op_value("Nop") -> [ok |-> TRUE, op |-> [name |-> "Nop"]]
          [] op = Machine_Op_value("Push") ->
                [ok |-> TRUE, op |-> [name |-> "Push", v |-> arg]]
          [] op = Machine_Op_value("PopRegister") ->
                LET r == Register_from_u8(arg) IN
                IF r.some
                THEN [ok |-> TRUE, op |-> [name |-> "PopRegister", r |-> r.reg]]
                ELSE [ok |-> FALSE, err |-> <<"unknown register", arg>>]
          [] op = Machine_Op_value("AddStack") ->
                [ok |-> TRUE, op |-> [name |-> "AddStack"]]
          [] op = Machine_Op_value("Signal") ->
                [ok |-> TRUE, op |-> [name |-> "Signal", s |-> arg]]
          [] OTHER -> [ok |-> FALSE, err |-> <<"unknown op", op>>]

\* str::to_uppercase on the strings the model uses
to_uppercase(str) ==
    CASE str = "a" -> "A"
      [] str = "sp" -> "SP"
      [] str = "Pc" -> "PC"
      [] str = "flags" -> "FLAGS"
      [] str = "r0" -> "R0"
      [] str = "x" -> "X"
      [] OTHER -> str

\* define_registers! from_str: the name in upper case against the variants
from_str(str) ==
    LET s_upper == to_uppercase(str)
        r == FirstMatch(RegisterVariants,
                        {i \in 1..Len(RegisterVariants) :
                             RegisterVariants[i].name = s_upper})
    IN  IF r.some THEN [ok |-> TRUE, reg |-> r.reg]
        ELSE [ok |-> FALSE, err |-> <<"Invalid register name", str>>]

\* define_instructions! parse_instruction
parse_instruction(ins) ==
    LET op == ins % U8
        arg == (ins \div U8) % U8
    IN  CASE op = 0 -> [ok |-> TRUE, op |-> [name |-> "Nop"]]
          [] op = 1 -> [ok |-> TRUE, op |-> [name |-> "Push", v |-> arg]]
          [] op = 9 -> [ok |-> TRUE, op |-> [name |-> "Signal", s |-> arg]]
          [] op = 2 ->
                LET r == from_u8(arg) IN
                IF r.some
                THEN [ok |-> TRUE, op |-> [name |-> "PopRegister", r |-> r.reg]]
                ELSE [ok |-> FALSE, err |-> <<"Unknown register", arg>>]
          [] op = 3 ->
                LET r == from_u8(arg) IN
                IF r.some
                THEN [ok |-> TRUE, op |-> [name |-> "PushRegister", r |-> r.reg]]
                ELSE [ok |-> FALSE, err |-> <<"Unknown register", arg>>]
          [] op = 4 ->
                LET reg1 == (arg \div 16) % 16
                    reg2 == arg % 16
                    r1 == from_u8(reg1)
                    r2 == from_u8(reg2)
                IN  IF ~r1.some
                    THEN [ok |-> FALSE, err |-> <<"Unknown register", reg1>>]
                    ELSE IF ~r2.some
                    THEN [ok |-> FALSE, err |-> <<"Unknown register", reg2>>]
                    ELSE [ok |-> TRUE,
                          op |-> [name |-> "AddRegister",
                                  r1 |-> r1.reg, r2 |-> r2.reg]]
          [] op = 15 -> [ok |-> TRUE, op |-> [name |-> "AddStack"]]
          [] OTHER -> [ok |-> FALSE, err |-> <<"Unknown instruction", op>>]

\* to_u16 packing AddRegister's first register into the low nibble
to_u16_nibbles_exchanged(op) ==
    CASE op.name = "Nop" -> 0
      [] op.name = "Push" -> op.v * U8 + 1
      [] op.name = "Signal" -> op.s * U8 + 9
      [] op.name = "PopRegister" -> op.r * U8 + 2
      [] op.name = "PushRegister" -> op.r * U8 + 3
      [] op.name = "AddRegister" ->
            ((((op.r2 % 16) * 16) % U8) + (op.r1 % 16)) * U8 + 4
      [] op.name = "AddStack" -> 15

\* to_u16 keeping three bits of a single register operand: `reg_val & 0x07`
to_u16_register_masked(op) ==
    CASE op.name = "Nop" -> 0
      [] op.name = "Push" -> op.v * U8 + 1
      [] op.name = "Signal" -> op.s * U8 + 9
      [] op.name = "PopRegister" -> (op.r % 8) * U8 + 2
      [] op.name = "PushRegister" -> (op.r % 8) * U8 + 3
      [] op.name = "AddRegister" ->
            ((((op.r1 % 16) * 16) % U8) + (op.r2 % 16)) * U8 + 4
      [] op.name = "AddStack" -> 15

\* define_instructions! to_u16: argument byte << 8 | opcode
to_u16(op) ==
    CASE op.name = "Nop" -> 0
      [] op.name = "Push" -> op.v * U8 + 1
      [] op.name = "Signal" -> op.s * U8 + 9
      [] op.name = "PopRegister" -> op.r * U8 + 2
      [] op.name = "PushRegister" -> op.r * U8 + 3
      [] op.name = "AddRegister" ->
            ((((op.r1 % 16) * 16) % U8) + (op.r2 % 16)) * U8 + 4
      [] op.name = "AddStack" -> 15

----------------------------------------------------------------------------
(* A program of two instructions at 0, the halt handler defined for 0x09, *)
(* and calls of Machine::step that go on whatever the earlier ones gave    *)

MaxRunCalls == 2

RunProgram(w1, w2) == <<w1 % U8, w1 \div U8, w2 % U8, w2 \div U8>>

InitRun ==
    \E w1 \in Instructions, w2 \in Instructions :
        /\ registers = NewMachine.registers
        /\ memory = load_from_vec(NewMachine.memory, RunProgram(w1, w2), 0,
                                  TRUE).mem
        /\ halt = FALSE
        /\ signal_handlers = [c \in {9} |-> "halt"]
        /\ overflow_checks \in BOOLEAN
        /\ last = [call |-> "new", res |-> "ok", val |-> 0, err |-> <<>>,
                   pushes |-> 0, pops |-> 0, fetched |-> FALSE, op |-> NoOp,
                   gstack |-> <<>>]
        /\ pre = [NewMachine EXCEPT !.memory = memory]
        /\ gstack = <<>>
        /\ nhost = 0
        /\ ncalls = 0

NextRun == ncalls < MaxRunCalls /\ Step

SpecRun == InitRun /\ [][NextRun]_vars

----------------------------------------------------------------------------
(* The drivers' main (bin/vm.rs, bin/vm/main.rs): define the halt handler  *)
(* for 0x09, load the program at 0, call step() while the machine is not   *)
(* halted, return the first error.  last.call is where main is, and        *)
(* last.fetches the addresses the steps fetched from, in order.            *)

MaxDriverSteps == 6

HALT_SIGNAL == 9

\* A program file one byte longer than the memory: Signal(0x09), then zeros
LongProgram ==
    [i \in 1..(MEMORY_SIZE + 1) |-> IF i <= 2 THEN HALT_SIGNAL ELSE 0]

\* The byte buffers main reads from the program file
DriverPrograms ==
    {RunProgram(w1, w2) : w1 \in Instructions, w2 \in Instructions}
    \cup {<<>>,
          <<OP_PUSH, 42, OP_POPREGISTER, A, OP_SIGNAL, HALT_SIGNAL>>,
          <<OP_PUSH, 0, OP_POPREGISTER, PC>>,
          <<OP_PUSH, 0, OP_PUSH, 0, OP_POPREGISTER, PC>>,
          LongProgram}

DriverRecord(call, res, err, fetched, op, fetches) ==
    [call |-> call, res |-> res, val |-> 0, err |-> err,
     pushes |-> 0, pops |-> 0, fetched |-> fetched, op |-> op,
     gstack |-> <<>>, fetches |-> fetches]

InitDriver ==
    /\ registers = NewMachine.registers
    /\ memory = NewMachine.memory
    /\ halt = NewMachine.halt
    /\ signal_handlers = [c \in {} |-> "halt"]
    /\ overflow_checks \in BOOLEAN
    /\ last = DriverRecord("new", "ok", <<>>, FALSE, NoOp, <<>>)
    /\ pre = NewMachine
    /\ gstack = <<>>
    /\ nhost = 0
    /\ ncalls = 0

\* `vm.define_handler(0x09, signal_halt)`
DriverDefineHandler ==
    /\ last.call = "new"
    /\ signal_handlers' =
           [c \in DOMAIN signal_handlers \cup {HALT_SIGNAL} |-> "halt"]
    /\ last' = DriverRecord("define_handler", "ok", <<>>, FALSE, NoOp, <<>>)
    /\ UNCHANGED <<registers, memory, halt, overflow_checks, pre, gstack,
                   nhost, ncalls>>

\* `if let Some(..) = vm.memory.load_from_vec(&buffer, 0) { println!(..) }`
DriverLoad(buffer) ==
    /\ last.call = "define_handler"
    /\ LET l == load_from_vec(memory, buffer, 0, overflow_checks) IN
         /\ memory' = l.mem
         /\ last' = DriverRecord("load_from_vec", l.kind, <<>>, FALSE, NoOp,
                                 <<>>)
    /\ UNCHANGED <<registers, halt, signal_handlers, overflow_checks, pre,
                   gstack, nhost, ncalls>>

\* main is at the head of its loop
AtLoop ==
    \/ last.call = "load_from_vec"
    \/ last.call = "step" /\ last.res = "ok"

\* `loop` in place of `while !vm.halt`
LoopCondition_always == TRUE

\* `while !vm.halt`
LoopCondition == ~halt

\* `match vm.step()` in the loop
DriverStep ==
    /\ AtLoop
    /\ LoopCondition
    /\ LET r == step(Machine, signal_handlers, overflow_checks) IN
         /\ registers' = r.vm.registers
         /\ memory' = r.vm.memory
         /\ halt' = r.vm.halt
         /\ last' = DriverRecord("step", r.res, r.err, r.fetched, r.op,
                                 IF r.fetched
                                 THEN Append(last.fetches, registers[PC])
                                 ELSE last.fetches)
    /\ pre' = Machine
    /\ ncalls' = ncalls + 1
    /\ UNCHANGED <<signal_handlers, overflow_checks, gstack, nhost>>

DriverExit(res, err) ==
    /\ last' = DriverRecord("exit", res, err, FALSE, NoOp, last.fetches)
    /\ UNCHANGED <<registers, memory, halt, signal_handlers, overflow_checks,
                   pre, gstack, nhost, ncalls>>

\* `Err(e) => { println!(..); return Err(e); }`
DriverReturnErr ==
    /\ last.call = "step"
    /\ last.res = "err"
    /\ DriverExit("err", last.err)

\* The loop ends on the halt flag: print the state, `Ok(())`
DriverReturnOk ==
    /\ AtLoop
    /\ ~LoopCondition
    /\ DriverExit("ok", <<>>)

\* bin/vm/main.rs in manual mode, "exit" typed after a step: `break`
DriverManualExit ==
    /\ last.call = "step"
    /\ last.res = "ok"
    /\ DriverExit("ok", <<>>)

NextDriver ==
    \/ DriverDefineHandler
    \/ \E buffer \in DriverPrograms : DriverLoad(buffer)
    \/ ncalls < MaxDriverSteps /\ DriverStep
    \/ DriverReturnErr
    \/ DriverReturnOk
    \/ DriverManualExit

SpecDriver == InitDriver /\ [][NextDriver]_vars

----------------------------------------------------------------------------
(* Programs run from the new machine, one instruction per step, going on   *)
(* after a step that returned an error.  last.total counts the successful  *)
(* pushes and pops and the successful fetches of all the steps so far;     *)
(* last.plain, last.sp_written, last.pc_written and last.underflow tell    *)
(* what kinds of operation the steps so far have executed.                 *)

MaxProgramSteps == 4

ProgramInstructions ==
    {Word(OP_NOP, 0), Word(OP_PUSH, U8 - 1),
     Word(OP_POPREGISTER, A), Word(OP_PUSHREGISTER, A),
     Word(OP_ADDSTACK, 0), Word(OP_ADDREGISTER, A * 16 + A),
     Word(OP_POPREGISTER, SP), Word(OP_POPREGISTER, PC),
     Word(OP_POPREGISTER, R4 + 1), Word(OP_SIGNAL, 66), Word(U8 - 1, 0)}

\* op is Nop, Push, AddStack, or PopRegister, PushRegister or AddRegister
\* on A, B and C
PlainOperation(op) ==
    \/ op.name \in {"Nop", "Push", "AddStack"}
    \/ op.name \in {"PopRegister", "PushRegister"} /\ op.r \in {A, B, C}
    \/ op.name = "AddRegister" /\ op.r1 \in {A, B, C} /\ op.r2 \in {A, B, C}

\* op has the register r for its destination
Destination(op, r) ==
    \/ op.name = "PopRegister" /\ op.r = r
    \/ op.name = "AddRegister" /\ op.r1 = r

\* op, started at the stack pointer sp, pops more words than the stack
\* region from 0x1000 holds
PopsBelowStack(op, sp) ==
    \/ op.name = "PopRegister" /\ sp < STACK_START + 2
    \/ op.name = "AddStack" /\ sp < STACK_START + 4

InitProgram ==
    /\ registers = NewMachine.registers
    /\ memory = NewMachine.memory
    /\ halt = NewMachine.halt
    /\ signal_handlers = [c \in {} |-> "halt"]
    /\ overflow_checks \in BOOLEAN
    /\ last = [call |-> "new", res |-> "ok", val |-> 0, err |-> <<>>,
               pushes |-> 0, pops |-> 0, fetched |-> FALSE, op |-> NoOp,
               gstack |-> <<>>,
               total |-> [pushes |-> 0, pops |-> 0, fetches |-> 0],
               plain |-> TRUE, sp_written |-> FALSE, pc_written |-> FALSE,
               underflow |-> FALSE]
    /\ pre = NewMachine
    /\ gstack = <<>>
    /\ nhost = 0
    /\ ncalls = 0

\* The instruction w of the program is at PC and Machine::step is called
ProgramStep(w) ==
    /\ Running
    /\ registers[PC] + 1 < memory.size
    /\ LET vm == WithInstruction(Machine, w)
           r == step(vm, signal_handlers, overflow_checks)
       IN  /\ registers' = r.vm.registers
           /\ memory' = r.vm.memory
           /\ halt' = r.vm.halt
           /\ last' = [call |-> "step", res |-> r.res, val |-> r.val,
                       err |-> r.err, pushes |-> r.pushes, pops |-> r.pops,
                       fetched |-> r.fetched, op |-> r.op, gstack |-> <<>>,
                       total |->
                           [pushes |-> last.total.pushes + r.pushes,
                            pops |-> last.total.pops + r.pops,
                            fetches |-> last.total.fetches
                                        + IF r.fetched THEN 1 ELSE 0],
                       plain |-> last.plain /\ PlainOperation(r.op),
                       sp_written |-> last.sp_written \/ Destination(r.op, SP),
                       pc_written |-> last.pc_written \/ Destination(r.op, PC),
                       underflow |-> last.underflow
                                     \/ PopsBelowStack(r.op, registers[SP])]
           /\ pre' = vm
    /\ ncalls' = ncalls + 1
    /\ UNCHANGED <<signal_handlers, overflow_checks, gstack, nhost>>

NextProgram ==
    /\ ncalls < MaxProgramSteps
    /\ \E w \in ProgramInstructions : ProgramStep(w)

SpecProgram == InitProgram /\ [][NextProgram]_vars


----------------------------------------------------------------------------
(* The register conversions and the codec called on their own: last holds  *)
(* the call, its argument and what each of the two implementations gave    *)

RegisterCodes == {RegisterVariants[i].value : i \in 1..Len(RegisterVariants)}

\* Every operation the enum Op can hold
Operations ==
    {[name |-> "Nop"], [name |-> "AddStack"]}
    \cup {[name |-> "Push", v |-> v] : v \in 0..(U8 - 1)}
    \cup {[name |-> "Signal", s |-> v] : v \in 0..(U8 - 1)}
    \cup {[name |-> "PopRegister", r |-> r] : r \in RegisterCodes}
    \cup {[name |-> "PushRegister", r |-> r] : r \in RegisterCodes}
    \cup {[name |-> "AddRegister", r1 |-> r1, r2 |-> r2] :
             r1 \in RegisterCodes, r2 \in RegisterCodes}

RegisterStrings ==
    {RegisterVariants[i].name : i \in 1..Len(RegisterVariants)}
    \cup {"a", "sp", "Pc", "flags", "r0", "x", "X", "", "R5"}

CodecUnchanged ==
    UNCHANGED <<registers, memory, halt, signal_handlers, overflow_checks, pre,
                gstack, nhost, ncalls>>

\* op.to_u16()
CallToU16(op) ==
    /\ last' = [call |-> "to_u16", op |-> op, val |-> to_u16(op)]
    /\ CodecUnchanged

\* The word that to_u16 gave, decoded again
CallParseEncoded ==
    /\ last.call = "to_u16"
    /\ last' = [call |-> "round_trip", op |-> last.op, val |-> last.val,
                decoded |-> parse_instructions(last.val),
                macro_decoded |-> parse_instruction(last.val)]
    /\ CodecUnchanged

\* parse_instructions(ins) of opcodes.rs and of machine.rs, and
\* Instruction::parse_instruction(ins)
CallParse(ins) ==
    /\ last' = [call |-> "parse", val |-> ins,
                decoded |-> parse_instructions(ins),
                macro_decoded |-> parse_instruction(ins),
                machine_decoded |-> Machine_parse_instructions(ins)]
    /\ CodecUnchanged

\* The operation that Instruction::parse_instruction gave, encoded again
CallEncodeDecoded ==
    /\ last.call = "parse"
    /\ last.macro_decoded.ok
    /\ last' = [call |-> "re_encode", val |-> last.val,
                op |-> last.macro_decoded.op,
                out |-> to_u16(last.macro_decoded.op)]
    /\ CodecUnchanged

\* Register::from_u8(v), of registers.rs and of machine.rs
CallFromU8(v) ==
    /\ last' = [call |-> "from_u8", val |-> v, out |-> from_u8(v),
                machine_out |-> Register_from_u8(v)]
    /\ CodecUnchanged

\* Register::from_str(str), of registers.rs and of machine.rs
CallFromStr(str) ==
    /\ last' = [call |-> "from_str", str |-> str, out |-> from_str(str),
                machine_out |-> Register_from_str(str)]
    /\ CodecUnchanged

\* Each run makes one call, or encodes an operation and decodes the word
NextCodec ==
    \/ last.call = "new" /\ \E op \in Operations : CallToU16(op)
    \/ CallParseEncoded
    \/ last.call = "new" /\ \E ins \in 0..(U16 - 1) : CallParse(ins)
    \/ CallEncodeDecoded
    \/ last.call = "new" /\ \E v \in 0..(U8 - 1) : CallFromU8(v)
    \/ last.call = "new" /\ \E str \in RegisterStrings : CallFromStr(str)

SpecCodec == Init /\ [][NextCodec]_vars


----------------------------------------------------------------------------
(* The assembler's code generator (bin/asm/codegen.rs) on the IR of        *)
(* bin/asm/ir.rs, and the engine's decoder on the bytes it emits           *)

MaxIRLength == 2

AsmRegisterNames == {"A", "SP", "R4", "a", "x"}

\* The IR instructions the programs are made of
IRInstructions ==
    {[kind |-> "Nop"], [kind |-> "AddStack"],
     [kind |-> "PushImmediate", n |-> 0], [kind |-> "PushImmediate", n |-> U8 - 1],
     [kind |-> "PushHex", n |-> 66], [kind |-> "Signal", n |-> HALT_SIGNAL],
     [kind |-> "Label", name |-> "loop"], [kind |-> "Jump", label |-> "loop"]}
    \cup {[kind |-> "PushRegister", r |-> r] : r \in AsmRegisterNames}
    \cup {[kind |-> "Pop", r |-> r] : r \in AsmRegisterNames}
    \cup {[kind |-> "AddRegister", r1 |-> r1, r2 |-> r2] :
             r1 \in {"A", "R4", "x"}, r2 \in {"A", "SP", "x"}}

IRPrograms == UNION {[1..k -> IRInstructions] : k \in 0..MaxIRLength}

\* The first pass of generate_bytecode: the byte offset of each label
RECURSIVE label_offsets(_, _, _, _)
label_offsets(instrs, i, pc, labels) ==
    IF i > Len(instrs) THEN labels
    ELSE IF instrs[i].kind = "Label"
    THEN label_offsets(instrs, i + 1, pc,
                       [l \in DOMAIN labels \cup {instrs[i].name} |->
                           IF l = instrs[i].name THEN pc ELSE labels[l]])
    ELSE label_offsets(instrs, i + 1, pc + 2, labels)

Emitted(bytes) == [kind |-> "ok", bytes |-> bytes, err |-> <<>>]

InvalidRegister(r) ==
    [kind |-> "err", bytes |-> <<>>, err |-> <<"Invalid register", r>>]

\* The AddRegister arm with the registers in each other's nibble:
\* `(reg2 as u8) << 4 | (reg1 as u8)`
emit_nibbles_exchanged(instr) ==
    CASE instr.kind = "Nop" -> Emitted(<<Op_value("Nop"), 0>>)
      [] instr.kind \in {"PushImmediate", "PushHex"} ->
            Emitted(<<Op_value("Push"), instr.n>>)
      [] instr.kind = "PushRegister" ->
            LET reg == from_str(instr.r) IN
            IF ~reg.ok THEN InvalidRegister(instr.r)
            ELSE Emitted(<<Op_value("PushRegister"), reg.reg>>)
      [] instr.kind = "Pop" ->
            LET reg == from_str(instr.r) IN
            IF ~reg.ok THEN InvalidRegister(instr.r)
            ELSE Emitted(<<Op_value("PopRegister"), reg.reg>>)
      [] instr.kind = "AddStack" -> Emitted(<<Op_value("AddStack"), 0>>)
      [] instr.kind = "AddRegister" ->
            LET reg1 == from_str(instr.r1)
                reg2 == from_str(instr.r2)
            IN  IF ~reg1.ok THEN InvalidRegister(instr.r1)
                ELSE IF ~reg2.ok THEN InvalidRegister(instr.r2)
                ELSE Emitted(<<Op_value("AddRegister"),
                               ((reg2.reg * 16) % U8) + reg1.reg>>)
      [] instr.kind = "Signal" -> Emitted(<<Op_value("Signal"), instr.n>>)
      [] instr.kind = "Jump" -> [kind |-> "panic", bytes |-> <<>>, err |-> <<>>]
      [] instr.kind = "Label" -> Emitted(<<>>)

\* The arm of generate_bytecode's second pass for one instruction: the
\* bytes it appends, the error it returns, or the panic of `todo!`
emit(instr) ==
    CASE instr.kind = "Nop" -> Emitted(<<Op_value("Nop"), 0>>)
      [] instr.kind \in {"PushImmediate", "PushHex"} ->
            Emitted(<<Op_value("Push"), instr.n>>)
      [] instr.kind = "PushRegister" ->
            LET reg == from_str(instr.r) IN
            IF ~reg.ok THEN InvalidRegister(instr.r)
            ELSE Emitted(<<Op_value("PushRegister"), reg.reg>>)
      [] instr.kind = "Pop" ->
            LET reg == from_str(instr.r) IN
            IF ~reg.ok THEN InvalidRegister(instr.r)
            ELSE Emitted(<<Op_value("PopRegister"), reg.reg>>)
      [] instr.kind = "AddStack" -> Emitted(<<Op_value("AddStack"), 0>>)
      [] instr.kind = "AddRegister" ->
            LET reg1 == from_str(instr.r1)
                reg2 == from_str(instr.r2)
            IN  IF ~reg1.ok THEN InvalidRegister(instr.r1)
                ELSE IF ~reg2.ok THEN InvalidRegister(instr.r2)
                ELSE Emitted(<<Op_value("AddRegister"),
                               ((reg1.reg * 16) % U8) + reg2.reg>>)
      [] instr.kind = "Signal" -> Emitted(<<Op_value("Signal"), instr.n>>)
      [] instr.kind = "Jump" -> [kind |-> "panic", bytes |-> <<>>, err |-> <<>>]
      [] instr.kind = "Label" -> Emitted(<<>>)

\* The second pass from the instruction i on, bytecode holding the bytes of
\* the instructions before it
RECURSIVE generate_from(_, _, _)
generate_from(instrs, i, bytecode) ==
    IF i > Len(instrs) THEN Emitted(bytecode)
    ELSE LET e == emit(instrs[i]) IN
         IF e.kind # "ok" THEN e
         ELSE generate_from(instrs, i + 1, bytecode \o e.bytes)

\* generate_bytecode
generate_bytecode(instrs) ==
    LET labels == label_offsets(instrs, 1, 0, [l \in {} |-> 0])
    IN  generate_from(instrs, 1, <<>>)

\* generate_bytecode(&instrs)
CallGenerate(instrs) ==
    /\ last' = [call |-> "generate_bytecode", instrs |-> instrs,
                out |-> generate_bytecode(instrs)]
    /\ CodecUnchanged

\* The engine's parse_instructions on each pair of the emitted bytes
CallDecodeEmitted ==
    /\ last.call = "generate_bytecode"
    /\ last.out.kind = "ok"
    /\ last' = [call |-> "decode", instrs |-> last.instrs, out |-> last.out,
                decoded |->
                    [k \in 1..(Len(last.out.bytes) \div 2) |->
                        parse_instructions(Word(last.out.bytes[2 * k - 1],
                                                last.out.bytes[2 * k]))]]
    /\ CodecUnchanged

NextAsm ==
    \/ last.call = "new" /\ \E instrs \in IRPrograms : CallGenerate(instrs)
    \/ CallDecodeEmitted

SpecAsm == Init /\ [][NextAsm]_vars

\* The register a canonical register name stands for
NamedRegister(name) ==
    RegisterVariants[CHOOSE i \in 1..Len(RegisterVariants) :
                         RegisterVariants[i].name = name].value

CanonicalNames == {RegisterVariants[i].name : i \in 1..Len(RegisterVariants)}

\* The register names of an IR instruction
NamesOf(instr) ==
    CASE instr.kind \in {"PushRegister", "Pop"} -> {instr.r}
      [] instr.kind = "AddRegister" -> {instr.r1, instr.r2}
      [] OTHER -> {}

ValidNames(instrs) ==
    \A i \in 1..Len(instrs) : NamesOf(instrs[i]) \subseteq CanonicalNames

\* The operation an IR instruction stands for
Corresponding(instr) ==
    CASE instr.kind = "Nop" -> [name |-> "Nop"]
      [] instr.kind \in {"PushImmediate", "PushHex"} ->
            [name |-> "Push", v |-> instr.n]
      [] instr.kind = "PushRegister" ->
            [name |-> "PushRegister", r |-> NamedRegister(instr.r)]
      [] instr.kind = "Pop" ->
            [name |-> "PopRegister", r |-> NamedRegister(instr.r)]
      [] instr.kind = "AddStack" -> [name |-> "AddStack"]
      [] instr.kind = "AddRegister" ->
            [name |-> "AddRegister", r1 |-> NamedRegister(instr.r1),
             r2 |-> NamedRegister(instr.r2)]
      [] instr.kind = "Signal" -> [name |-> "Signal", s |-> instr.n]
      [] OTHER -> [name |-> "Jump"]

IsNotLabel(instr) == instr.kind # "Label"

NonLabels(instrs) == SelectSeq(instrs, IsNotLabel)

HasJump(instrs) == \E i \in 1..Len(instrs) : instrs[i].kind = "Jump"

\* The emitted bytes are two per non-label instruction, and each pair
\* decodes to the operation of its instruction
EmitsAndDecodes ==
    /\ last.call = "generate_bytecode" =>
          /\ last.out.kind = "ok"
          /\ Len(last.out.bytes) = 2 * Len(NonLabels(last.instrs))
    /\ last.call = "decode" =>
          /\ Len(last.decoded) = Len(NonLabels(last.instrs))
          /\ \A k \in 1..Len(last.decoded) :
                /\ last.decoded[k].ok
                /\ last.decoded[k].op = Corresponding(NonLabels(last.instrs)[k])

\* C38 as claimed: for every IR program with valid register names, the code
\* generator emits exactly two bytes per non-label instruction and nothing
\* for a label, and each emitted pair decodes in the engine to the
\* corresponding operation with the same operands.
C38_CodegenDecodes ==
    (last.call \in {"generate_bytecode", "decode"} /\ ValidNames(last.instrs))
        => EmitsAndDecodes

\* C38 amended: the same for every IR program with valid register names and
\* no Jump; on a program with a Jump generate_bytecode panics and emits
\* nothing.
C38_CodegenDecodesWithoutJump ==
    (last.call \in {"generate_bytecode", "decode"} /\ ValidNames(last.instrs))
        => IF HasJump(last.instrs)
           THEN last.call = "generate_bytecode" /\ last.out.kind = "panic"
                /\ last.out.bytes = <<>>
           ELSE EmitsAndDecodes

C38_Witness ==
    /\ last.call = "decode"
    /\ last.instrs = <<[kind |-> "Label", name |-> "loop"],
                       [kind |-> "AddRegister", r1 |-> "R4", r2 |-> "SP"]>>
    /\ last.out.bytes = <<OP_ADDREGISTER, 196>>
    /\ last.decoded = <<[ok |-> TRUE,
                         op |-> [name |-> "AddRegister", r1 |-> R4, r2 |-> SP]]>>

----------------------------------------------------------------------------
(* LinearMemory called on its own, with the sizes the tests and the        *)
(* machine give it and addresses around its end: last holds the call, its  *)
(* arguments and its result, and in prev the call before it                *)

MaxMemoryCalls == 2

MemorySizes == {U8, MEMORY_SIZE}
MemoryAddresses(n) == {0, 1, n - 2, n - 1, n, n + 1, U16 - 2, U16 - 1}
MemoryBytes == {66, U8 - 1}
MemoryWords == {U8 - 1, 4660, 43981, U16 - U8, U16 - 1}
LoadVectors == {<<>>, <<1, 2, 3>>, <<1, 2, 3, 4, 5, 6>>}

InitMemory ==
    \E n \in MemorySizes :
        Started([NewMachine EXCEPT !.memory = NewMemory(n)])

\* The record of a call on the memory
MemoryCall(call, addr, val, res, out) ==
    [call |-> call, addr |-> addr, val |-> val, res |-> res, out |-> out,
     prev |-> [call |-> last.call, val |-> last.val, res |-> last.res,
               addr |-> IF last.call = "new" THEN 0 ELSE last.addr]]

MemoryCommit(mem, record) ==
    /\ memory' = mem
    /\ last' = record
    /\ pre' = Machine
    /\ ncalls' = ncalls + 1
    /\ UNCHANGED <<registers, halt, signal_handlers, overflow_checks, gstack,
                   nhost>>

\* memory.read(addr)
CallRead(addr) ==
    LET r == read(memory, addr) IN
    MemoryCommit(memory, MemoryCall("read", addr, 0,
                                    IF r.some THEN "some" ELSE "none", r.val))

\* memory.write(addr, v)
CallWrite(addr, v) ==
    LET w == write(memory, addr, v) IN
    MemoryCommit(w.mem, MemoryCall("write", addr, v,
                                   IF w.ok THEN "true" ELSE "false", 0))

\* memory.read2(addr)
CallRead2(addr) ==
    LET r == read2(memory, addr, overflow_checks) IN
    MemoryCommit(memory, MemoryCall("read2", addr, 0, r.kind, r.val))

\* memory.write2(addr, v)
CallWrite2(addr, v) ==
    LET w == write2(memory, addr, v, overflow_checks) IN
    MemoryCommit(w.mem, MemoryCall("write2", addr, v, w.kind, 0))

\* memory.load_from_vec(&from, addr)
CallLoadFromVec(from, addr) ==
    LET l == load_from_vec(memory, from, addr, overflow_checks) IN
    MemoryCommit(l.mem, MemoryCall("load_from_vec", addr, from, l.kind,
                                   <<l.bytes, l.instructions>>))

NextMemory ==
    /\ ncalls < MaxMemoryCalls
    /\ Running
    /\ \E addr \in MemoryAddresses(memory.size) :
         \/ CallRead(addr)
         \/ \E v \in MemoryBytes : CallWrite(addr, v)
         \/ CallRead2(addr)
         \/ \E v \in MemoryWords : CallWrite2(addr, v)
         \/ \E from \in LoadVectors : CallLoadFromVec(from, addr)

SpecMemory == InitMemory /\ [][NextMemory]_vars

----------------------------------------------------------------------------
(* Addressable::copy called on a memory that holds 1, 2, 3, 4 at 0..3      *)

MaxCopyCalls == 1

CopySource == <<1, 2, 3, 4>>
CopyAddresses(n) == {0, 1, 2, n - 2, n - 1, n, U16 - 1}
CopyLengths == {0, 1, 2, 3}

InitCopy ==
    \E n \in MemorySizes :
        Started([NewMachine EXCEPT !.memory =
                    load_from_vec(NewMemory(n), CopySource, 0, TRUE).mem])

\* memory.copy(from, to, n)
CallCopy(from, to, n) ==
    LET c == copy(memory, from, to, n, overflow_checks) IN
    MemoryCommit(c.mem, MemoryCall("copy", from, <<to, n>>, c.kind, 0))

NextCopy ==
    /\ ncalls < MaxCopyCalls
    /\ Running
    /\ \E from \in CopyAddresses(memory.size),
          to \in CopyAddresses(memory.size),
          n \in CopyLengths : CallCopy(from, to, n)

SpecCopy == InitCopy /\ [][NextCopy]_vars

----------------------------------------------------------------------------
(* Properties *)

IsStep == last.call = "step" /\ last.fetched /\ last.res # "panic"

\* The registers other than those in the set except are as before the call
RegistersKept(except) ==
    \A r \in DOMAIN registers \ except : registers[r] = pre.registers[r]

\* C1 (as claimed): every step whose fetch succeeds leaves PC at its value
\* before the step plus 2, whatever the operation and its operands
C1_PCAdvancesByTwo ==
    IsStep => registers[PC] = (pre.registers[PC] + 2) % U16

\* C2 (as claimed): across a push, a pop or a step, SP moves by +2 for each
\* push that succeeded and -2 for each pop that succeeded, and by nothing else
C2_SPMovesOnlyByPushAndPop ==
    (last.call \in {"push", "pop", "step"} /\ last.res # "panic")
        => registers[SP] =
             (pre.registers[SP] + 2 * last.pushes + (U16 - 2) * last.pops) % U16

\* C3: when pop returns an error, SP, every other register, the memory and
\* the halt flag are as they were before the call, for every SP in 0..0xFFFF
C3_FailedPopChangesNothing ==
    (last.call = "pop" /\ last.res = "err") => Machine = pre

\* C3's case: a pop from SP < 2, where SP - 2 wraps, has returned an error
C3_Witness ==
    /\ last.call = "pop"
    /\ last.res = "err"
    /\ pre.registers[SP] < 2
    /\ last.err = <<"memory read fault", pre.registers[SP] + U16 - 2>>

\* C4 (as claimed): a step that returns an error after its fetch leaves every
\* register but PC, and every memory byte, as before the step
C4_FailedStepChangesNothing ==
    (IsStep /\ last.res = "err")
        => RegistersKept({PC}) /\ memory = pre.memory

\* C5: the stack is last-in first-out: a pop made while pushes are
\* outstanding succeeds, returns the value of the innermost outstanding push
\* and puts SP back to its value before that push
C5_StackIsLIFO ==
    (last.call = "pop" /\ last.gstack # <<>>)
        => LET top == last.gstack[Len(last.gstack)] IN
             /\ last.res = "ok"
             /\ last.val = top.v
             /\ registers[SP] = top.sp

\* C5's case: 0x1234, 1 and 0xFFFF were pushed from 0x1000 and three pops
\* have returned them in reverse, the last one 0x1234 with SP back at 0x1000
C5_Witness ==
    /\ last.call = "pop"
    /\ last.res = "ok"
    /\ Len(last.gstack) = 1
    /\ last.val = 4660
    /\ registers[SP] = STACK_START
    /\ read2(memory, STACK_START, TRUE).val = 4660
    /\ read2(memory, STACK_START + 2, TRUE).val = 1
    /\ read2(memory, STACK_START + 4, TRUE).val = U16 - 1

\* C6: from the new machine with Push(a), Push(b), AddStack, PopRegister(A)
\* at 0, each of the four steps succeeds, and after them A = a + b,
\* SP = 0x1000 and PC = 8 (a is the byte at 1 and b the byte at 3)
C6_AddProgramResult ==
    /\ last.call = "step" => last.res = "ok"
    /\ ncalls = ADD_PROGRAM_STEPS =>
         /\ registers[A] = Byte(memory, 1) + Byte(memory, 3)
         /\ registers[SP] = STACK_START
         /\ registers[PC] = 2 * ADD_PROGRAM_STEPS

\* C6's case: the program has run with a = b = 255
C6_Witness ==
    /\ ncalls = ADD_PROGRAM_STEPS
    /\ last.op = [name |-> "PopRegister", r |-> A]
    /\ Byte(memory, 1) = U8 - 1
    /\ Byte(memory, 3) = U8 - 1
    /\ registers[A] = 2 * (U8 - 1)

\* AddStack has executed on a stack whose two top words are inside memory
AddStackOnTwoWords ==
    /\ last.call = "step"
    /\ last.op.name = "AddStack"
    /\ pre.registers[SP] >= 4
    /\ pre.registers[SP] <= pre.memory.size

\* C7 (as claimed): AddStack on two words a (top) and b succeeds for all
\* 16-bit a and b, leaves (a + b) mod 2^16 at the old SP - 4 and SP at the
\* old SP - 2, and changes no other register than PC
C7_AddStackWraps ==
    AddStackOnTwoWords =>
        LET sp == pre.registers[SP]
            a == read2(pre.memory, sp - 2, TRUE).val
            b == read2(pre.memory, sp - 4, TRUE).val
        IN  /\ last.res = "ok"
            /\ read2(memory, sp - 4, TRUE).val = (a + b) % U16
            /\ registers[SP] = sp - 2
            /\ RegistersKept({PC, SP})

\* The registers once step has fetched: PC moved on by 2
Fetched == [pre.registers EXCEPT ![PC] = (pre.registers[PC] + 2) % U16]

\* C8 (as claimed): AddRegister(r1, r2) always succeeds, sets r1 to
\* (r1 + r2) mod 2^16 and changes neither the memory nor any register other
\* than r1 and PC
C8_AddRegisterWraps ==
    (last.call = "step" /\ last.op.name = "AddRegister")
        => /\ last.res = "ok"
           /\ registers =
                [Fetched EXCEPT ![last.op.r1] =
                    (Fetched[last.op.r1] + Fetched[last.op.r2]) % U16]
           /\ memory = pre.memory
           /\ halt = pre.halt

\* Signal(c) has executed
IsSignal == last.call = "step" /\ last.op.name = "Signal"

\* C9: Signal(c) with the halt handler registered for c: the step succeeds,
\* the machine is halted, PC is 2 further and the other registers and the
\* memory are unchanged
C9_SignalHalts ==
    (IsSignal /\ last.op.s \in DOMAIN signal_handlers
              /\ signal_handlers[last.op.s] = "halt")
        => /\ last.res = "ok"
           /\ halt
           /\ registers = Fetched
           /\ memory = pre.memory

\* C9's case: a machine that was running has executed Signal(0x09) with the
\* halt handler defined for 0x09
C9_Witness ==
    /\ IsSignal
    /\ last.op.s = 9
    /\ 9 \in DOMAIN signal_handlers
    /\ signal_handlers[9] = "halt"
    /\ ~pre.halt
    /\ halt

\* C10: Signal(c) with no handler registered for c: the step returns the
\* unknown-signal error carrying c, PC is 2 further, and the halt flag, the
\* other registers and the memory are unchanged
C10_UnknownSignal ==
    (IsSignal /\ last.op.s \notin DOMAIN signal_handlers)
        => /\ last.res = "err"
           /\ last.err = <<"unknown signal", last.op.s>>
           /\ registers = Fetched
           /\ halt = pre.halt
           /\ memory = pre.memory

\* C10's case: Signal(0x2A) has executed on a machine that has a handler for
\* 0x09 only
C10_Witness ==
    /\ IsSignal
    /\ last.op.s = 42
    /\ DOMAIN signal_handlers = {9}
    /\ last.res = "err"
    /\ registers[PC] = 2

\* The machine is halted, or the last call of step returned an error
Terminal == halt \/ (last.call = "step" /\ last.res = "err")

\* C11 (as claimed): once step has returned an error or a handler has set
\* halt, a later call of step fetches nothing and changes no register and no
\* memory byte
C11_TerminalStates ==
    [][(Terminal /\ last'.call = "step" /\ ncalls' = ncalls + 1)
          => (~last'.fetched /\ Machine' = Machine)]_vars

\* C12 (as claimed): step with the two bytes at PC not both inside memory
\* returns the memory fault naming PC and changes nothing, for every PC up to
\* 0xFFFF
C12_FetchFault ==
    (last.call = "step" /\ pre.registers[PC] + 1 >= pre.memory.size)
        => /\ last.res = "err"
           /\ last.err = <<"memory read fault at PC", pre.registers[PC]>>
           /\ Machine = pre

\* C13: decoding the word that encodes an operation gives the operation
\* back, for every operation: Nop, AddStack, Push(v), Signal(v),
\* PopRegister(r), PushRegister(r), AddRegister(r1, r2); AddRegister's word
\* has r1 in the high nibble and r2 in the low nibble of the argument byte
C13_DecodeEncode ==
    /\ last.call = "round_trip" =>
         /\ last.decoded = [ok |-> TRUE, op |-> last.op]
         /\ last.macro_decoded = [ok |-> TRUE, op |-> last.op]
    /\ (last.call = "to_u16" /\ last.op.name = "AddRegister") =>
         /\ last.val % U8 = 4
         /\ (last.val \div U8) \div 16 = last.op.r1
         /\ (last.val \div U8) % 16 = last.op.r2

\* C13's case: AddRegister(R4, SP) was encoded as 0xC404 and decoded again
C13_Witness ==
    /\ last.call = "round_trip"
    /\ last.op = [name |-> "AddRegister", r1 |-> R4, r2 |-> SP]
    /\ last.val = 50180
    /\ last.decoded.ok

\* The opcode table of the instruction set
OpcodeTable ==
    (0 :> "Nop") @@ (1 :> "Push") @@ (2 :> "PopRegister")
    @@ (3 :> "PushRegister") @@ (4 :> "AddRegister") @@ (9 :> "Signal")
    @@ (15 :> "AddStack")

CanonicalIndex ==
    ("A" :> 0) @@ ("B" :> 1) @@ ("C" :> 2) @@ ("M" :> 3) @@ ("SP" :> 4)
    @@ ("PC" :> 5) @@ ("BP" :> 6) @@ ("FLAGS" :> 7)

\* No two variants of the enum vs have the same code
DistinctCodes(vs) ==
    \A i, j \in 1..Len(vs) : i # j => vs[i].value # vs[j].value

\* C16: the register mapping is a bijection: the registers' codes are
\* distinct, from_u8 of a register's code is that register, from_str of a
\* register's name is that register, and A, B, C, M, SP, PC, BP, FLAGS are
\* 0..7
C16_RegisterMapping ==
    /\ DistinctCodes(RegisterVariants)
    /\ DistinctCodes(MachineRegisterVariants)
    /\ last.call = "from_u8" =>
         /\ \A i \in 1..Len(RegisterVariants) :
              last.val = RegisterVariants[i].value =>
                last.out = [some |-> TRUE, reg |-> RegisterVariants[i].value]
         /\ \A i \in 1..Len(MachineRegisterVariants) :
              last.val = MachineRegisterVariants[i].value =>
                last.machine_out =
                    [some |-> TRUE, reg |-> MachineRegisterVariants[i].value]
    /\ last.call = "from_str" =>
         /\ \A i \in 1..Len(RegisterVariants) :
              last.str = RegisterVariants[i].name =>
                last.out = [ok |-> TRUE, reg |-> RegisterVariants[i].value]
         /\ \A i \in 1..Len(MachineRegisterVariants) :
              last.str = MachineRegisterVariants[i].name =>
                last.machine_out =
                    [ok |-> TRUE, reg |-> MachineRegisterVariants[i].value]
         /\ last.str \in DOMAIN CanonicalIndex =>
              /\ last.out.reg = CanonicalIndex[last.str]
              /\ last.machine_out.reg = CanonicalIndex[last.str]

\* C16's case: from_str("FLAGS") was called and both enums gave register 7
C16_Witness ==
    /\ last.call = "from_str"
    /\ last.str = "FLAGS"
    /\ last.out = [ok |-> TRUE, reg |-> 7]
    /\ last.machine_out = [ok |-> TRUE, reg |-> 7]

\* C17 (as claimed): every register the decoder returns is an index into the
\* machine's register array: no step that executes PopRegister, PushRegister
\* or AddRegister, the codes 0x08..0x0C included, indexes past its end
C17_RegisterIndexInRange ==
    /\ (last.call = "step" /\ last.op.name = "PopRegister" /\ last.pops = 1)
          => last.op.r \in DOMAIN registers
    /\ (last.call = "step" /\ last.op.name = "PushRegister")
          => last.op.r \in DOMAIN registers
    /\ (last.call = "step" /\ last.op.name = "AddRegister")
          => {last.op.r1, last.op.r2} \subseteq DOMAIN registers

\* The bytes of memory are those before the last call, but for the byte v at
\* addr
OnlyByteWritten(addr, v) ==
    /\ memory.size = pre.memory.size
    /\ \A a \in DOMAIN memory.bytes \cup DOMAIN pre.memory.bytes \cup {addr} :
         Byte(memory, a) = IF a = addr THEN v ELSE Byte(pre.memory, a)

\* The last call follows a call of the operation named on the same address
After(call) == last.prev.call = call /\ last.prev.addr = last.addr

\* C18: for addr < size, write succeeds (at size - 1 too) and read returns
\* the byte stored at addr; for addr >= size up to 0xFFFF, read fails, write
\* fails and no memory byte changes
C18_MemoryBounds ==
    /\ last.call = "read" =>
         /\ last.res = (IF last.addr < memory.size THEN "some" ELSE "none")
         /\ memory = pre.memory
         /\ (last.res = "some" /\ After("write")) => last.out = last.prev.val
         /\ (last.res = "some" /\ last.prev.call = "new") => last.out = 0
    /\ last.call = "write" =>
         IF last.addr < memory.size
         THEN last.res = "true" /\ OnlyByteWritten(last.addr, last.val)
         ELSE last.res = "false" /\ memory = pre.memory

\* C18's case: a write to size - 1 succeeded and the read of size - 1 after
\* it has returned the byte
C18_Witness ==
    /\ last.call = "read"
    /\ last.addr = memory.size - 1
    /\ After("write")
    /\ last.res = "some"
    /\ last.out = 66

\* C19 (as claimed): for all addr < size and every 16-bit v, write2(addr, v)
\* followed by read2(addr) yields v
C19_Write2Read2 ==
    (last.call = "read2" /\ After("write2") /\ last.addr < memory.size)
        => last.res = "some" /\ last.out = last.prev.val

\* C19 (amended): for all addr with addr + 1 < size and every 16-bit v,
\* write2(addr, v) succeeds and the read2(addr) that follows yields v
C19_Write2Read2InBounds ==
    (last.call = "read2" /\ After("write2") /\ last.addr + 1 < memory.size)
        => /\ last.prev.res = "true"
           /\ last.res = "some"
           /\ last.out = last.prev.val

\* C19's case: 0xABCD was written at size - 2 and read back
C19_Witness ==
    /\ last.call = "read2"
    /\ After("write2")
    /\ last.addr = memory.size - 2
    /\ last.out = 43981

\* C20: read2(addr) and write2(addr, v) succeed exactly when addr + 1 < size:
\* at size - 1 both fail, at size - 2 both succeed
C20_WordAccessBounds ==
    /\ last.call = "read2" =>
         last.res = (IF last.addr + 1 < memory.size THEN "some" ELSE "none")
    /\ last.call = "write2" =>
         last.res = (IF last.addr + 1 < memory.size THEN "true" ELSE "false")

\* C20's case: write2 at size - 1 has returned false
C20_Witness ==
    /\ last.call = "write2"
    /\ last.addr = memory.size - 1
    /\ last.res = "false"

\* C21: words are little-endian: after a successful write2(addr, v) the
\* byte at addr is v & 0xFF and the byte at addr + 1 is v >> 8, a read of
\* either returns it, no other byte has changed, and read2(addr) is
\* read(addr) | (read(addr + 1) << 8)
C21_LittleEndian ==
    /\ (last.call = "write2" /\ last.res = "true") =>
         /\ Byte(memory, last.addr) = last.val % 256
         /\ Byte(memory, last.addr + 1) = last.val \div 256
         /\ \A a \in DOMAIN memory.bytes \cup DOMAIN pre.memory.bytes :
              a \notin {last.addr, last.addr + 1}
                  => Byte(memory, a) = Byte(pre.memory, a)
    /\ (last.call = "read" /\ last.prev.call = "write2"
          /\ last.prev.res = "true") =>
         /\ last.addr = last.prev.addr => last.out = last.prev.val % 256
         /\ last.addr = last.prev.addr + 1 => last.out = last.prev.val \div 256
    /\ (last.call = "read2" /\ last.res = "some") =>
         last.out = Byte(memory, last.addr) + 256 * Byte(memory, last.addr + 1)

\* C21's case: 0x1234 was written at 0 and the read of address 1 after it
\* has returned the high byte 0x12
C21_Witness ==
    /\ last.call = "read"
    /\ last.prev = [call |-> "write2", val |-> 4660, res |-> "true", addr |-> 0]
    /\ last.addr = 1
    /\ last.out = 18

\* Every target address of the last load_from_vec is inside the memory
LoadInBounds ==
    \A i \in 1..Len(last.val) : last.addr + i - 1 < memory.size

\* The bytes of the last load_from_vec are in memory from its base address
Loaded ==
    \A i \in 1..Len(last.val) : Byte(memory, last.addr + i - 1) = last.val[i]

\* C22 (as claimed): load_from_vec(bytes, base) returns (n, n / 2) with the
\* bytes at base.. when every target address is in bounds, and returns
\* failure when one is not, with memory as before the call
C22_LoadAllOrNothing ==
    last.call = "load_from_vec" =>
        IF LoadInBounds
        THEN /\ last.res = "some"
             /\ last.out = <<Len(last.val), Len(last.val) \div 2>>
             /\ Loaded
        ELSE /\ last.res = "none"
             /\ memory = pre.memory

\* C22 (amended): as claimed when every target address is in bounds; when
\* one is not, load_from_vec returns failure, the bytes aimed below the end
\* of memory are written and every other byte is as before the call
C22_LoadUpToFault ==
    last.call = "load_from_vec" =>
        IF LoadInBounds
        THEN /\ last.res = "some"
             /\ last.out = <<Len(last.val), Len(last.val) \div 2>>
             /\ Loaded
        ELSE /\ last.res = "none"
             /\ memory.size = pre.memory.size
             /\ \A a \in DOMAIN memory.bytes \cup DOMAIN pre.memory.bytes :
                  Byte(memory, a) =
                      IF a >= last.addr /\ a - last.addr < Len(last.val)
                      THEN last.val[a - last.addr + 1]
                      ELSE Byte(pre.memory, a)

\* C22's case: six bytes were loaded at size - 2 and the load failed
C22_Witness ==
    /\ last.call = "load_from_vec"
    /\ Len(last.val) = 6
    /\ last.addr = memory.size - 2
    /\ last.res = "none"

\* C23: a new Machine has SP = 0x1000, PC = 0 and every other register 0,
\* a memory of 8192 bytes that all read 0, halt = false and no handler
C23_NewMachine ==
    last.call = "new" =>
        /\ DOMAIN registers = 0..7
        /\ registers[SP] = 4096
        /\ registers[PC] = 0
        /\ \A r \in DOMAIN registers \ {SP, PC} : registers[r] = 0
        /\ memory.size = 8192
        /\ \A a \in 0..8191 : read(memory, a) = [some |-> TRUE, val |-> 0]
        /\ ~read(memory, 8192).some
        /\ halt = FALSE
        /\ DOMAIN signal_handlers = {}

\* C23's case: the machine as Machine::new returned it, before any call
C23_Witness ==
    /\ last.call = "new"
    /\ nhost = 0
    /\ ncalls = 0
    /\ registers[SP] = STACK_START
    /\ read(memory, MEMORY_SIZE - 1).some

\* C24: the driving loop calls step() only while the machine is not halted
\* and no step() has failed; after a step() error the only thing it does is
\* return that error; on the halt flag the only thing it does is return
\* success; after returning it does nothing
C24_DriverLoop ==
    [][/\ (last'.call = "step" /\ ncalls' = ncalls + 1) =>
              /\ ~halt
              /\ ~(last.call = "step" /\ last.res = "err")
       /\ (last.call = "step" /\ last.res = "err") =>
              /\ last'.call = "exit"
              /\ last'.res = "err"
              /\ last'.err = last.err
              /\ ncalls' = ncalls
       /\ (last.call = "step" /\ last.res = "ok" /\ halt) =>
              /\ last'.call = "exit"
              /\ last'.res = "ok"
              /\ ncalls' = ncalls
       /\ last.call # "exit"]_vars

\* C24's case: the second step() failed and main returned its error
C24_Witness ==
    /\ last.call = "exit"
    /\ last.res = "err"
    /\ last.err = <<"unknown op", U8 - 1>>
    /\ ncalls = 2

\* C25: a step() whose operation is not Signal (Nop, Push, PopRegister,
\* PushRegister, AddStack, AddRegister, or none when the fetch or the
\* decoding failed) leaves the halt flag as it was, whatever it returns
C25_HaltOnlyBySignal ==
    (last.call = "step" /\ last.op.name # "Signal") => halt = pre.halt

\* C25's case: the halt handler has set the flag and a step() that pushes
\* has run after it
C25_Witness ==
    /\ last.call = "step"
    /\ last.op.name \in {"Push", "PushRegister"}
    /\ last.res = "ok"
    /\ pre.halt
    /\ halt

\* C26: with the halt handler alone, for every program loaded at 0 the
\* driving loop never fetches from the same address twice and has fetched
\* at most size / 2 times
C26_NoLoop ==
    /\ \A i, j \in DOMAIN last.fetches :
           i # j => last.fetches[i] # last.fetches[j]
    /\ Len(last.fetches) <= memory.size \div 2

\* C27: push(v) succeeds exactly when SP + 1 < size; then the word at the
\* old SP is v and SP is the old SP plus 2; otherwise it returns an error
\* and SP is unchanged
C27_PushBounds ==
    last.call = "push" =>
        IF pre.registers[SP] + 1 < pre.memory.size
        THEN /\ last.res = "ok"
             /\ read2(memory, pre.registers[SP], overflow_checks) =
                    [kind |-> "some", val |-> last.op.v]
             /\ registers[SP] = pre.registers[SP] + 2
        ELSE /\ last.res = "err"
             /\ registers[SP] = pre.registers[SP]

\* C27's case: a push at SP = size - 2 succeeded and left SP = size, and
\* the push after it failed
C27_Witness ==
    /\ last.call = "push"
    /\ last.res = "err"
    /\ registers[SP] = MEMORY_SIZE
    /\ gstack # <<>>
    /\ gstack[Len(gstack)].sp = MEMORY_SIZE - 2

\* C28: when the handler that Signal(c) calls returns a failure, step()
\* returns exactly that failure; when it returns success, step() returns
\* success and the machine is as the handler left it: its register, memory
\* and halt changes on top of the advanced PC
C28_HandlerResult ==
    (IsSignal /\ last.op.s \in DOMAIN signal_handlers) =>
        LET f == signal_handlers[last.op.s] IN
        /\ f \in {"fail", "store_fail"} =>
               /\ last.res = "err"
               /\ last.err = <<"handler failed">>
        /\ f = "halt" =>
               /\ last.res = "ok"
               /\ halt
               /\ registers = Fetched
               /\ memory = pre.memory
        /\ f = "store" =>
               /\ last.res = "ok"
               /\ halt
               /\ registers = [Fetched EXCEPT ![A] = 4660]
               /\ read2(memory, 0, overflow_checks) =
                      [kind |-> "some", val |-> 4660]
               /\ \A a \in (DOMAIN memory.bytes \cup DOMAIN pre.memory.bytes)
                           \ {0, 1} : Byte(memory, a) = Byte(pre.memory, a)

\* C28's case: Signal(0x42) has called a handler that returned a failure
C28_Witness ==
    /\ IsSignal
    /\ last.op.s = 66
    /\ 66 \in DOMAIN signal_handlers
    /\ signal_handlers[66] = "fail"
    /\ last.err = <<"handler failed">>

\* C29: after a successful step of PushRegister(r) the word at the old SP
\* is the value r had after the fetch (the advanced PC for r = PC, the old
\* SP for r = SP), SP is 2 further and every other register, r included, is
\* as the fetch left it
C29_PushRegister ==
    (IsStep /\ last.op.name = "PushRegister" /\ last.res = "ok") =>
        /\ read2(memory, pre.registers[SP], overflow_checks) =
               [kind |-> "some", val |-> Fetched[last.op.r]]
        /\ registers = [Fetched EXCEPT ![SP] = pre.registers[SP] + 2]
        /\ last.op.r = PC =>
               read2(memory, pre.registers[SP], overflow_checks).val =
                   pre.registers[PC] + 2
        /\ last.op.r = SP =>
               read2(memory, pre.registers[SP], overflow_checks).val =
                   pre.registers[SP]

\* C29's case: PushRegister(PC) has pushed the advanced PC
C29_Witness ==
    /\ IsStep
    /\ last.op = [name |-> "PushRegister", r |-> PC]
    /\ last.res = "ok"
    /\ pre.registers[PC] = MEMORY_SIZE - 2
    /\ read2(memory, pre.registers[SP], overflow_checks).val = MEMORY_SIZE

\* The indexes of the last copy whose source or destination address is
\* outside the memory
CopyFaults ==
    {i \in 0..(last.val[2] - 1) :
         last.addr + i >= memory.size \/ last.val[1] + i >= memory.size}

\* The indexes the last copy went through before it stopped
CopyDone ==
    {i \in 0..(last.val[2] - 1) : \A k \in CopyFaults : i < k}

\* The result of the last copy and the bytes it left alone: true exactly
\* when no index is out of bounds, and no byte changed but those at to + i
\* for the indexes before the first that is
CopyResult ==
    /\ last.res = IF CopyFaults = {} THEN "true" ELSE "false"
    /\ memory.size = pre.memory.size
    /\ \A a \in DOMAIN memory.bytes \cup DOMAIN pre.memory.bytes :
           a \notin {last.val[1] + i : i \in CopyDone} =>
               Byte(memory, a) = Byte(pre.memory, a)

\* C30 (as claimed): copy(from, to, n) returns true exactly when from + i
\* and to + i are in bounds for every i < n, stopping at the first index
\* that is not; on success the byte at to + i is the byte from + i held
\* before the call for every i < n, overlapping ranges included
C30_CopyMoves ==
    last.call = "copy" =>
        /\ CopyResult
        /\ last.res = "true" =>
               \A i \in 0..(last.val[2] - 1) :
                   Byte(memory, last.val[1] + i) =
                       Byte(pre.memory, last.addr + i)

\* C30 (amended): as claimed, for the copies whose destination does not
\* start inside the source range after its first byte (to <= from or
\* to >= from + n)
C30_CopyForward ==
    last.call = "copy" =>
        /\ CopyResult
        /\ (last.res = "true"
              /\ (last.val[1] <= last.addr
                    \/ last.val[1] >= last.addr + last.val[2])) =>
               \A i \in 0..(last.val[2] - 1) :
                   Byte(memory, last.val[1] + i) =
                       Byte(pre.memory, last.addr + i)

\* C30's case: copy(1, 0, 3) over overlapping ranges has moved 2, 3, 4 down
C30_Witness ==
    /\ last.call = "copy"
    /\ last.addr = 1
    /\ last.val = <<0, 3>>
    /\ last.res = "true"
    /\ Byte(memory, 0) = 2
    /\ Byte(memory, 1) = 3
    /\ Byte(memory, 2) = 4

\* C31 (as claimed): for every 16-bit word w that decodes, encoding the
\* decoded operation gives w back, Nop and AddStack words with a non-zero
\* argument byte included
C31_EncodeDecode ==
    last.call = "re_encode" => last.out = last.val

\* C31 (amended): for every 16-bit word w that decodes and whose argument
\* byte is zero when its opcode is Nop or AddStack, encoding the decoded
\* operation gives w back
C31_EncodeDecodeWithArgument ==
    (/\ last.call = "re_encode"
     /\ last.op.name \in {"Nop", "AddStack"} => last.val \div U8 = 0)
        => last.out = last.val

\* C31's case: 0xC404 was decoded to AddRegister(R4, SP) and encoded again
C31_Witness ==
    /\ last.call = "re_encode"
    /\ last.val = 50180
    /\ last.op = [name |-> "AddRegister", r1 |-> R4, r2 |-> SP]
    /\ last.out = 50180

\* The argument byte arg names the registers that the variant name needs,
\* some telling for each code whether it names a register
ArgumentValid(name, arg, some) ==
    CASE name \in {"PopRegister", "PushRegister"} -> some[arg]
      [] name = "AddRegister" -> some[arg \div 16] /\ some[arg % 16]
      [] OTHER -> TRUE

\* C32: in machine.rs and in opcodes.rs alike, a word whose low byte is the
\* value() of an Op variant and whose argument byte is valid for it decodes
\* to that variant, AddRegister included
C32_DecoderCoversOp ==
    last.call = "parse" =>
        LET op == last.val % U8
            arg == last.val \div U8
        IN  /\ \A i \in DOMAIN MachineOpNames :
                 (/\ op = Machine_Op_value(MachineOpNames[i])
                  /\ ArgumentValid(MachineOpNames[i], arg,
                                   [v \in 0..(U8 - 1) |->
                                       Register_from_u8(v).some]))
                     => /\ last.machine_decoded.ok
                        /\ last.machine_decoded.op.name = MachineOpNames[i]
            /\ \A name \in OpNames :
                 (/\ op = Op_value(name)
                  /\ ArgumentValid(name, arg,
                                   [v \in 0..(U8 - 1) |-> from_u8(v).some]))
                     => /\ last.decoded.ok
                        /\ last.decoded.op.name = name

\* C33: when write2(addr, v) returns false no memory byte has changed, at
\* addr = size - 1 as at every other address
C33_FailedWrite2ChangesNothing ==
    (last.call = "write2" /\ last.res = "false") =>
        \A a \in 0..(memory.size - 1) : Byte(memory, a) = Byte(pre.memory, a)

\* C34: when load_from_vec reports failure to the driver, the driver does
\* not go on to call step()
C34_RunsOnlyLoadedProgram ==
    [][(last.call = "load_from_vec" /\ last.res # "some")
           => last'.call # "step"]_vars

\* C35 (as claimed): after steps that executed only Nop, Push, AddStack and
\* PopRegister, PushRegister and AddRegister on A, B and C, SP >= 0x1000 and
\* the last step wrote no byte below 0x1000; a pop at SP = 0x1000 does not
\* succeed
C35_StackInRegion ==
    (last.call = "step" /\ last.res # "panic" /\ last.plain) =>
        /\ registers[SP] >= STACK_START
        /\ \A a \in DOMAIN memory.bytes \cup DOMAIN pre.memory.bytes :
               a < STACK_START => Byte(memory, a) = Byte(pre.memory, a)
        /\ (last.op.name = "PopRegister" /\ pre.registers[SP] = STACK_START)
               => last.res = "err"

\* C35 (amended): after such steps, none of which popped more words than the
\* stack region held when it started, SP >= 0x1000 and the last step wrote
\* no byte below 0x1000; a pop at SP = 0x1000 succeeds and leaves
\* SP = 0x0FFE
C35_StackInRegionUnlessUnderflow ==
    /\ (last.call = "step" /\ last.res # "panic" /\ last.plain
                           /\ ~last.underflow) =>
          /\ registers[SP] >= STACK_START
          /\ \A a \in DOMAIN memory.bytes \cup DOMAIN pre.memory.bytes :
                 a < STACK_START => Byte(memory, a) = Byte(pre.memory, a)
    /\ (last.call = "step" /\ last.op.name = "PopRegister"
                           /\ last.op.r \in {A, B, C}
                           /\ pre.registers[SP] = STACK_START) =>
          /\ last.res = "ok"
          /\ registers[SP] = STACK_START - 2

\* C35's case: two pushes, then AddStack has popped both words and pushed
\* their sum at 0x1000
C35_Witness ==
    /\ last.call = "step"
    /\ last.plain
    /\ ~last.underflow
    /\ last.op.name = "AddStack"
    /\ last.res = "ok"
    /\ registers[SP] = STACK_START + 2
    /\ last.total.pops = 2

\* C36: after steps none of which has SP for its destination, SP is even
\* and SP - 0x1000 is twice the number of successful pushes less the number
\* of successful pops of all the steps so far
C36_SPCountsPushesAndPops ==
    (last.call \in {"new", "step"} /\ ~last.sp_written) =>
        /\ registers[SP] % 2 = 0
        /\ registers[SP] - STACK_START =
               2 * (last.total.pushes - last.total.pops)

\* C36's case: a push, then an AddStack whose second pop went below 0x1000
\* and whose push put the sum at 0x0FFE
C36_Witness ==
    /\ last.call = "step"
    /\ ~last.sp_written
    /\ last.op.name = "AddStack"
    /\ last.res = "ok"
    /\ last.total = [pushes |-> 2, pops |-> 2, fetches |-> 2]
    /\ registers[SP] = STACK_START

\* C37: after steps none of which has PC for its destination, PC is even
\* and is twice the number of steps so far whose fetch succeeded, whether
\* they then succeeded or returned a decode, stack or signal error
C37_PCCountsFetches ==
    (last.call \in {"new", "step"} /\ ~last.pc_written) =>
        /\ registers[PC] % 2 = 0
        /\ registers[PC] = 2 * last.total.fetches

\* C37's case: the third step fetched a word that names no operation and
\* returned the decode error
C37_Witness ==
    /\ last.call = "step"
    /\ ~last.pc_written
    /\ last.res = "err"
    /\ last.err = <<"unknown op", U8 - 1>>
    /\ last.total.fetches = 3
    /\ registers[PC] = 6

====
